---- MODULE Spec2Model ----
(***************************************************************************)
(* A model of the ikurabot core: the Markov ingest worker and its model,   *)
(* the single-file database store, and the built-in command registry.      *)
(* Strings are sequences of one-character strings, so that a byte offset   *)
(* of the source is a position of the sequence.                            *)
(***************************************************************************)
EXTENDS Integers, Sequences, FiniteSets, TLC

(* ------------------------------------------------------------------ *)
(* bounds                                                              *)
(* ------------------------------------------------------------------ *)
MaxChat    == 2     \* chat messages handed to processMessage
MaxRetrain == 1     \* calls of retrain()
MaxReset   == 1     \* calls of reset() made outside retrain()
MaxReload  == 1     \* serialise / deserialise cycles of the Markov model
MaxLoad    == 2     \* calls of load(), and so background syncer threads
MaxSync    == 2     \* runs of sync() by the background syncers
MaxUsers   == 1     \* chat users recorded in the database
MaxTime    == 2     \* readings of the millisecond clock
MaxCommands == 3    \* built-in commands issued
MaxDispatch == 2    \* command lines handed to the dispatcher
MaxMsgLen   == 6    \* codepoints of an outbound chat message
MaxFrames   == 2    \* IRC frames delivered to the Twitch backend
Timestamps == 1 .. MaxTime

(* ------------------------------------------------------------------ *)
(* markov.cpp constants                                                *)
(* ------------------------------------------------------------------ *)
MIN_INPUT_LENGTH         == 2
GOOD_INPUT_LENGTH        == 6
DISCARD_CHANCE_PERCENT   == 80
MAX_PREFIX_LENGTH        == 3
IDX_START_MARKER         == 0
IDX_END_MARKER           == 1
WORD_FLAG_EMOTE          == 1
WORD_FLAG_SENTENCE_START == 2
WORD_FLAG_SENTENCE_END   == 4

(* ------------------------------------------------------------------ *)
(* string helpers (ikura::str_view)                                    *)
(* ------------------------------------------------------------------ *)
take(s, n) == SubSeq(s, 1, IF n < Len(s) THEN n ELSE Len(s))
drop(s, n) == SubSeq(s, n + 1, Len(s))

IsSpace(c) == c = " " \/ c = "\t"

RECURSIVE trim_front(_)
trim_front(s) ==
    IF s # <<>> /\ IsSpace(Head(s)) THEN trim_front(Tail(s)) ELSE s

RECURSIVE trim_back(_)
trim_back(s) ==
    IF s # <<>> /\ IsSpace(s[Len(s)]) THEN trim_back(SubSeq(s, 1, Len(s) - 1)) ELSE s

trim(s) == trim_back(trim_front(s))

should_split(c) == c = "." \/ c = "," \/ c = "!" \/ c = "?"

\* the one-byte stand-in for a codepoint of an ignored Unicode category
IgnoredChar == "\r"
is_ignored_sequence(str) ==
    IF str # <<>> /\ Head(str) = IgnoredChar THEN 1 ELSE 0

\* relative_str: a (start, size) span of the message
end_excl(em) == em.start + em.size

(* ------------------------------------------------------------------ *)
(* process_one: splitting a message into words                         *)
(* ------------------------------------------------------------------ *)
\* the `advance` lambda: drop the word just taken, then leading blanks
advance(input, end, cur_idx) ==
    LET tmp == drop(input, end)
        rest == trim_front(tmp)
    IN  [input |-> rest, cur_idx |-> cur_idx + (Len(tmp) - Len(rest))]

RECURSIVE punct_run(_, _)
punct_run(input, end) ==
    IF end < Len(input) /\ should_split(input[end + 1])
    THEN punct_run(input, end + 1) ELSE end

RECURSIVE split_loop(_, _, _, _, _, _)
split_loop(input, end, cur_idx, is_emote, emote_idxs, word_arr) ==
    IF ~(end < Len(input))
    THEN IF end > 0
         THEN Append(word_arr, [w |-> take(input, end), e |-> is_emote])
         ELSE word_arr
    ELSE
    LET c == input[end + 1] IN
    IF ~is_emote /\ IsSpace(c)
    THEN LET a == advance(input, end, cur_idx)
         IN  split_loop(a.input, 0, a.cur_idx, is_emote, emote_idxs,
                        Append(word_arr, [w |-> take(input, end), e |-> FALSE]))
    ELSE IF should_split(c) /\ (end + 1 = Len(input) \/ input[end + 2] = " ")
    THEN LET a1 == advance(input, end, cur_idx)
             n  == punct_run(a1.input, 0)
             a2 == advance(a1.input, n, a1.cur_idx + n)
         IN  split_loop(a2.input, 0, a2.cur_idx, is_emote, emote_idxs,
                        word_arr \o << [w |-> take(input, end), e |-> FALSE],
                                       [w |-> take(a1.input, n), e |-> FALSE] >>)
    ELSE IF is_ignored_sequence(input) > 0
    THEN LET k == is_ignored_sequence(input)
         IN  split_loop(drop(input, k), end, cur_idx + k, is_emote, emote_idxs, word_arr)
    ELSE IF Len(emote_idxs) > 0
    THEN IF is_emote /\ end_excl(emote_idxs[1]) = cur_idx
         THEN LET a == advance(input, end, cur_idx)
              IN  split_loop(a.input, 0, a.cur_idx, FALSE, Tail(emote_idxs),
                             Append(word_arr, [w |-> take(input, end), e |-> TRUE]))
         ELSE IF emote_idxs[1].start = cur_idx
         THEN split_loop(input, end + 1, cur_idx + 1, TRUE, emote_idxs, word_arr)
         ELSE IF ~is_emote /\ emote_idxs[1].start < cur_idx
         THEN split_loop(input, end + 1, cur_idx + 1, is_emote, Tail(emote_idxs), word_arr)
         ELSE split_loop(input, end + 1, cur_idx + 1, is_emote, emote_idxs, word_arr)
    ELSE split_loop(input, end + 1, cur_idx + 1, is_emote, emote_idxs, word_arr)

\* lines 318-400: the word array of a message (empty for a blank message)
split_words(msg, emotes) ==
    LET input == trim(msg)
    IN  IF input = <<>> THEN <<>> ELSE split_loop(input, 0, 0, FALSE, emotes, <<>>)

(* ------------------------------------------------------------------ *)
(* the Markov model (struct MarkovModel, Word, WordList, DBWord)       *)
(* ------------------------------------------------------------------ *)
Word(w, freq) == [index |-> w, frequency |-> freq]
WordList == [totalFrequency |-> 0, words |-> <<>>, globalIndexMap |-> <<>>]
DBWord(sv, f) == [word |-> sv, flags |-> f]
MarkovModel == [table |-> <<>>, wordIndices |-> <<>>, wordList |-> <<>>]

initialise_model(model) ==
    [model EXCEPT !.wordList =
        @ \o << DBWord(<<>>, WORD_FLAG_SENTENCE_START),
                DBWord(<<>>, WORD_FLAG_SENTENCE_END) >>]

\* the body of reset()'s perform_write
reset_model(markov) == initialise_model(MarkovModel)

\* std::hash of a span of word indices: a positional hash, which is
\* injective on the prefixes the bounds allow
RECURSIVE hash_prefix(_)
hash_prefix(pref) ==
    IF pref = <<>> THEN 0
    ELSE hash_prefix(SubSeq(pref, 1, Len(pref) - 1)) * 31 + pref[Len(pref)] + 1

get_word_index(markov, sv, is_emote) ==
    LET word == IF is_emote THEN <<" ">> \o sv ELSE sv
    IN  IF word \in DOMAIN markov.wordIndices
        THEN [markov |-> markov, idx |-> markov.wordIndices[word]]
        ELSE LET idx == Len(markov.wordList)
             IN  [markov |-> [markov EXCEPT
                        !.wordList = Append(@, DBWord(sv, IF is_emote THEN WORD_FLAG_EMOTE ELSE 0)),
                        !.wordIndices = (word :> idx) @@ @],
                  idx |-> idx]

\* lines 416-425: the map_write that turns the word array into indices
RECURSIVE word_indices_loop(_, _, _)
word_indices_loop(markov, word_arr, ret) ==
    IF word_arr = <<>>
    THEN [markov |-> markov, ret |-> Append(ret, IDX_END_MARKER)]
    ELSE LET r == get_word_index(markov, Head(word_arr).w, Head(word_arr).e)
         IN  word_indices_loop(r.markov, Tail(word_arr), Append(ret, r.idx))

map_word_indices(markov, word_arr) ==
    word_indices_loop(markov, word_arr, <<IDX_START_MARKER>>)

\* a variant of bump_total that counts a transition only when it creates the WordList
bump_total_once(table, prefix_hash) ==
    IF prefix_hash \in DOMAIN table THEN table
    ELSE (prefix_hash :> [WordList EXCEPT !.totalFrequency = 1]) @@ table

\* lines 441-449: find or create the WordList, count the transition
bump_total(table, prefix_hash) ==
    LET t1 == IF prefix_hash \in DOMAIN table THEN table
              ELSE (prefix_hash :> WordList) @@ table
    IN  [t1 EXCEPT ![prefix_hash].totalFrequency = @ + 1]

\* a variant of bump_word that appends a new word without an entry in the
\* index map
bump_word_unmapped(table, prefix_hash, the_word) ==
    LET wl == table[prefix_hash]
    IN  IF the_word \in DOMAIN wl.globalIndexMap
        THEN [table EXCEPT ![prefix_hash].words[wl.globalIndexMap[the_word] + 1].frequency = @ + 1]
        ELSE [table EXCEPT ![prefix_hash].words = Append(@, Word(the_word, 1))]

\* lines 450-459: count the target word, inserting it when new
bump_word(table, prefix_hash, the_word) ==
    LET wl == table[prefix_hash]
    IN  IF the_word \in DOMAIN wl.globalIndexMap
        THEN [table EXCEPT ![prefix_hash].words[wl.globalIndexMap[the_word] + 1].frequency = @ + 1]
        ELSE [table EXCEPT
                ![prefix_hash].words = Append(@, Word(the_word, 1)),
                ![prefix_hash].globalIndexMap = (the_word :> Len(wl.words)) @@ @]

\* a variant of in_loop whose prefix length stops one short of MAX_PREFIX_LENGTH
in_loop_short(words, i, k) ==
    i + 1 < Len(words) /\ k >= 1 /\ k < MAX_PREFIX_LENGTH /\ i + k < Len(words)

\* the loop bounds of lines 429-431: is (i, k) an iteration of the loops?
in_loop(words, i, k) ==
    i + 1 < Len(words) /\ k >= 1 /\ k <= MAX_PREFIX_LENGTH /\ i + k < Len(words)

\* the iteration after (i, k), or i = Len(words) when the loops are over
next_ik(words, i, k) ==
    IF in_loop(words, i, k + 1) THEN [i |-> i, k |-> k + 1]
    ELSE IF in_loop(words, i + 1, 1) THEN [i |-> i + 1, k |-> 1]
    ELSE [i |-> Len(words), k |-> 1]

\* words.drop(i).take(k) and words[i + k], on the 1-based sequence
prefix_at(words, i, k) == SubSeq(words, i + 1, i + k)
target_at(words, i, k) == words[i + k + 1]

(* ------------------------------------------------------------------ *)
(* state                                                               *)
(* ------------------------------------------------------------------ *)
VARIABLES
    queue,                  \* State.queue: the QueuedMsg entries, oldest first
    markov,                 \* theMarkovModel
    mlock,                  \* who holds theMarkovModel for writing
    worker,                 \* worker_thread: its position and the locals of process_one
    retrainingTotalSize,    \* State.retrainingTotalSize
    retrainingCompleted,    \* State.retrainingCompleted
    messageLog,             \* db.twitchData.messageLog.messages
    rt,                     \* a thread inside retrain()
    sd,                     \* a thread inside shutdown()
    markovFile,             \* the Markov payload of the last snapshot
    calls,                  \* how often the bounded operations were called
    hist,                   \* history: what the worker has popped and applied
    TheDatabase,            \* db::TheDatabase
    primary,                \* the file at databasePath
    shadow,                 \* the file at databasePath + ".new"
    ld,                     \* a thread inside load(), and the state it found
    syn,                    \* the threads that call sync(): the loader and the syncers
    alive,                  \* the process is running
    dbcalls,                \* how often load() and the syncers' sync() were called
    interpreter,            \* the interpreter state of the built-in commands
    last,                   \* history: the last built-in command and what it did
    icalls,                 \* how many built-in commands were issued
    disp,                   \* history: the last command line and what ran for it
    call,                   \* a call of a function of the interpreter or a backend
    twitchChannels,         \* db.twitchData.channels: per channel, the users seen in it
    seen                    \* history: the last IRC frame and what was done for it

mvars == << queue, markov, mlock, worker, retrainingTotalSize, retrainingCompleted,
            messageLog, rt, sd, markovFile, calls, hist >>
dbvars == << TheDatabase, primary, shadow, ld, syn, alive, dbcalls >>
ivars  == << interpreter, last, icalls, disp, call >>
tvars  == << twitchChannels, seen >>
vars   == << mvars, dbvars, ivars, tvars >>

(* ------------------------------------------------------------------ *)
(* inputs                                                              *)
(* ------------------------------------------------------------------ *)
relative_str(s, n) == [start |-> s, size |-> n]

\* the chat lines the backends deliver: text and the emote spans of the text
ChatInputs ==
    { [msg |-> <<"a", " ", "b">>,      emotes |-> <<>>],
      [msg |-> <<"K", " ", "a">>,      emotes |-> <<relative_str(0, 1)>>],
      [msg |-> <<"!", "a", " ", ".">>, emotes |-> <<>>],
      [msg |-> <<>>,                   emotes |-> <<>>] }

(* ------------------------------------------------------------------ *)
(* wait_queue<QueuedMsg>                                               *)
(* ------------------------------------------------------------------ *)
queue_push(q, x) == Append(q, x)
queue_front(q)   == Head(q)
queue_rest(q)    == Tail(q)

QueuedMsg(m, e, id) ==
    [msg |-> m, emotes |-> e, shouldStop |-> FALSE, retraining |-> FALSE, id |-> id]
QueuedMsg_retrain(m, e, id) == [QueuedMsg(m, e, id) EXCEPT !.retraining = TRUE]
StopText == <<"_", "_", "s", "t", "o", "p", "_", "_">>

\* a variant of QueuedMsg::stop that leaves shouldStop unset
QueuedMsg_stop_unflagged(id) == QueuedMsg(StopText, <<>>, id)

QueuedMsg_stop(id) == [QueuedMsg(StopText, <<>>, id) EXCEPT !.shouldStop = TRUE]

\* split_words, tabulated once over the texts that can be in the queue
split_table ==
    [inp \in ChatInputs \cup {[msg |-> StopText, emotes |-> <<>>]} |->
        split_words(inp.msg, inp.emotes)]

\* a variant of process that puts the new entry at the head of the queue
process_front(q, input, emote_idxs, id) == <<QueuedMsg(input, emote_idxs, id)>> \o q

\* markov::process
process(q, input, emote_idxs, id) == queue_push(q, QueuedMsg(input, emote_idxs, id))

\* random::get<uint64_t>(0, 100)
Draws == 0 .. 100

\* lines 403-412 of process_one: the length filter on the number of words
\* for a draw x
length_filter(n, x) ==
    IF n < MIN_INPUT_LENGTH THEN "short"
    ELSE IF n < GOOD_INPUT_LENGTH /\ x <= DISCARD_CHANCE_PERCENT THEN "discarded"
    ELSE "ingest"

IdleWorker == [pc |-> "pop", input |-> QueuedMsg(<<>>, <<>>, 0), word_arr |-> <<>>,
               words |-> <<>>, i |-> 0, k |-> 1]

InitMarkov ==
    /\ queue = <<>>
    /\ markov = initialise_model(MarkovModel)
    /\ mlock = "free"
    /\ worker = IdleWorker
    /\ retrainingTotalSize = 0
    /\ retrainingCompleted = 0
    /\ messageLog = <<>>
    /\ rt = [pc |-> "idle", inputs |-> <<>>, j |-> 1]
    /\ sd = "idle"
    /\ markovFile = [present |-> FALSE, table |-> <<>>, wordList |-> <<>>]
    /\ calls = [retrain |-> 0, reset |-> 0, reload |-> 0]
    /\ hist = [nextId |-> 1, applied |-> <<>>, popped |-> {}, stopId |-> 0,
               base |-> <<>>, disturbed |-> FALSE, rtClean |-> FALSE]

\* the worker has recorded hist.base for a message and has not moved on yet
MidIngest == worker.pc \in {"table", "word", "count"} /\ worker.words # <<>>

\* history: message id has had an update applied to the model
NoteApplied(h, id) ==
    IF h.applied # <<>> /\ h.applied[Len(h.applied)] = id THEN h
    ELSE [h EXCEPT !.applied = Append(@, id)]

(* ------------------------------------------------------------------ *)
(* worker_thread and process_one                                       *)
(* ------------------------------------------------------------------ *)
\* lines 147-149 and 316-412: pop an entry, split it, filter short inputs
WorkerPop ==
    /\ worker.pc = "pop"
    /\ queue # <<>>
    /\ LET input == queue_front(queue)
           word_arr == split_table[[msg |-> input.msg, emotes |-> input.emotes]]
           h1 == [hist EXCEPT !.popped = @ \cup {input.id}]
       IN  /\ queue' = queue_rest(queue)
           /\ IF input.shouldStop
              THEN /\ worker' = [worker EXCEPT !.pc = "exited", !.input = input]
                   /\ hist' = hist
              ELSE IF input.msg = <<>>
              THEN /\ worker' = [IdleWorker EXCEPT !.input = input]
                   /\ hist' = h1
              ELSE \E x \in Draws :
                     LET kept == length_filter(Len(word_arr), x)
                     IN  IF kept = "short"
                         THEN /\ worker' = [IdleWorker EXCEPT !.pc = "count", !.input = input]
                              /\ hist' = h1
                         ELSE IF kept = "discarded"
                         THEN /\ worker' = [IdleWorker EXCEPT !.pc = "count", !.input = input]
                              /\ hist' = [h1 EXCEPT !.rtClean = FALSE]
                         ELSE /\ worker' = [IdleWorker EXCEPT !.pc = "indices", !.input = input,
                                                             !.word_arr = word_arr]
                              /\ hist' = h1
    /\ UNCHANGED << markov, mlock, retrainingTotalSize, retrainingCompleted,
                    messageLog, rt, sd, markovFile, calls >>
    /\ UNCHANGED << dbvars, ivars, tvars >>

\* lines 416-425: word_indices = markovModel().map_write(...)
WorkerIndices ==
    /\ worker.pc = "indices"
    /\ mlock = "free"
    /\ LET r == map_word_indices(markov, worker.word_arr)
       IN  /\ markov' = r.markov
           /\ worker' = [worker EXCEPT
                            !.words = r.ret, !.i = 0, !.k = 1,
                            !.pc = IF in_loop(r.ret, 0, 1) THEN "table" ELSE "count"]
           /\ hist' = [NoteApplied(hist, worker.input.id) EXCEPT
                            !.base = r.markov.table, !.disturbed = FALSE]
    /\ UNCHANGED << queue, mlock, retrainingTotalSize, retrainingCompleted,
                    messageLog, rt, sd, markovFile, calls >>
    /\ UNCHANGED << dbvars, ivars, tvars >>

\* lines 439-449: take the model lock, find the WordList, count the transition
WorkerTable ==
    /\ worker.pc = "table"
    /\ mlock = "free"
    /\ LET prefix_hash == hash_prefix(prefix_at(worker.words, worker.i, worker.k))
       IN  markov' = [markov EXCEPT !.table = bump_total(@, prefix_hash)]
    /\ mlock' = "worker"
    /\ worker' = [worker EXCEPT !.pc = "word"]
    /\ hist' = NoteApplied(hist, worker.input.id)
    /\ UNCHANGED << queue, retrainingTotalSize, retrainingCompleted,
                    messageLog, rt, sd, markovFile, calls >>
    /\ UNCHANGED << dbvars, ivars, tvars >>

\* lines 450-460: count the target word, release the lock, step the loops
WorkerWord ==
    /\ worker.pc = "word"
    /\ mlock = "worker"
    /\ LET prefix_hash == hash_prefix(prefix_at(worker.words, worker.i, worker.k))
           the_word == target_at(worker.words, worker.i, worker.k)
           n == next_ik(worker.words, worker.i, worker.k)
       IN  /\ markov' = [markov EXCEPT !.table = bump_word(@, prefix_hash, the_word)]
           /\ worker' = [worker EXCEPT
                            !.i = n.i, !.k = n.k,
                            !.pc = IF in_loop(worker.words, n.i, n.k) THEN "table" ELSE "count"]
    /\ mlock' = "free"
    /\ UNCHANGED << queue, retrainingTotalSize, retrainingCompleted,
                    messageLog, rt, sd, markovFile, calls, hist >>
    /\ UNCHANGED << dbvars, ivars, tvars >>

\* lines 152-161: account for a replayed message
WorkerCount ==
    /\ worker.pc = "count"
    /\ IF worker.input.retraining
       THEN IF retrainingCompleted + 1 = retrainingTotalSize
            THEN /\ retrainingTotalSize' = 0
                 /\ retrainingCompleted' = 0
            ELSE /\ retrainingCompleted' = retrainingCompleted + 1
                 /\ UNCHANGED retrainingTotalSize
       ELSE UNCHANGED << retrainingTotalSize, retrainingCompleted >>
    /\ worker' = [worker EXCEPT !.pc = "pop"]
    /\ UNCHANGED << queue, markov, mlock, messageLog, rt, sd, markovFile, calls, hist >>
    /\ UNCHANGED << dbvars, ivars, tvars >>

(* ------------------------------------------------------------------ *)
(* reset, retrain, process, shutdown                                   *)
(* ------------------------------------------------------------------ *)
\* reset(), called on its own
Reset ==
    /\ calls.reset < MaxReset
    /\ mlock = "free"
    /\ markov' = reset_model(markov)
    /\ calls' = [calls EXCEPT !.reset = @ + 1]
    /\ hist' = [hist EXCEPT !.disturbed = @ \/ MidIngest, !.rtClean = FALSE]
    /\ UNCHANGED << queue, mlock, worker, retrainingTotalSize, retrainingCompleted,
                    messageLog, rt, sd, markovFile >>
    /\ UNCHANGED << dbvars, ivars, tvars >>

\* lines 207-220: the log entries retrain() replays
RECURSIVE retrain_inputs(_)
retrain_inputs(tmsgs) ==
    IF tmsgs = <<>> THEN <<>>
    ELSE LET msg == Head(tmsgs)
             txt == msg.message
         IN  IF msg.isCommand THEN retrain_inputs(Tail(tmsgs))
             ELSE IF txt # <<>> /\ (txt[1] = "!" \/ txt[1] = "$") THEN retrain_inputs(Tail(tmsgs))
             ELSE <<[msg |-> txt, emotes |-> msg.emotePositions]>> \o retrain_inputs(Tail(tmsgs))

\* lines 243-249: std::sort by start, then std::unique on (start, size)
RECURSIVE sort_insert(_, _)
sort_insert(sorted, em) ==
    IF sorted = <<>> THEN <<em>>
    ELSE IF em.start < Head(sorted).start THEN <<em>> \o sorted
    ELSE <<Head(sorted)>> \o sort_insert(Tail(sorted), em)

RECURSIVE sort_emotes(_)
sort_emotes(emotes) ==
    IF emotes = <<>> THEN <<>>
    ELSE sort_insert(sort_emotes(SubSeq(emotes, 1, Len(emotes) - 1)), emotes[Len(emotes)])

RECURSIVE unique_emotes(_)
unique_emotes(emotes) ==
    IF Len(emotes) < 2 THEN emotes
    ELSE IF emotes[1] = emotes[2] THEN unique_emotes(Tail(emotes))
    ELSE <<Head(emotes)>> \o unique_emotes(Tail(emotes))

\* retrainingProgress(), in percent
retrainingProgress ==
    IF retrainingTotalSize = 0 THEN 100
    ELSE (100 * retrainingCompleted) \div retrainingTotalSize

\* lines 194-196: retrain() starts by resetting the model
RetrainReset ==
    /\ rt.pc = "idle"
    /\ calls.retrain < MaxRetrain
    /\ mlock = "free"
    /\ markov' = reset_model(markov)
    /\ rt' = [rt EXCEPT !.pc = "read"]
    /\ calls' = [calls EXCEPT !.retrain = @ + 1]
    /\ hist' = [hist EXCEPT !.disturbed = @ \/ MidIngest, !.rtClean = TRUE]
    /\ UNCHANGED << queue, mlock, worker, retrainingTotalSize, retrainingCompleted,
                    messageLog, sd, markovFile >>
    /\ UNCHANGED << dbvars, ivars, tvars >>

\* lines 203-233: copy the inputs out of the log under the database read lock
RetrainRead ==
    /\ rt.pc = "read"
    /\ rt' = [rt EXCEPT !.pc = "push", !.inputs = retrain_inputs(messageLog), !.j = 1]
    /\ UNCHANGED << queue, markov, mlock, worker, retrainingTotalSize, retrainingCompleted,
                    messageLog, sd, markovFile, calls, hist >>
    /\ UNCHANGED << dbvars, ivars, tvars >>

\* lines 235-253: one iteration of the replay loop
RetrainPush ==
    /\ rt.pc = "push"
    /\ rt.j <= Len(rt.inputs)
    /\ LET inp == rt.inputs[rt.j]
           emotes == unique_emotes(sort_emotes(inp.emotes))
       IN  queue' = queue_push(queue, QueuedMsg_retrain(inp.msg, emotes, hist.nextId))
    /\ retrainingTotalSize' = retrainingTotalSize + 1
    /\ rt' = [rt EXCEPT !.j = @ + 1]
    /\ hist' = [hist EXCEPT !.nextId = @ + 1]
    /\ UNCHANGED << markov, mlock, worker, retrainingCompleted,
                    messageLog, sd, markovFile, calls >>
    /\ UNCHANGED << dbvars, ivars, tvars >>

\* line 261: notify_pending() and return
RetrainReturn ==
    /\ rt.pc = "push"
    /\ rt.j > Len(rt.inputs)
    /\ rt' = [pc |-> "idle", inputs |-> <<>>, j |-> 1]
    /\ UNCHANGED << queue, markov, mlock, worker, retrainingTotalSize, retrainingCompleted,
                    messageLog, sd, markovFile, calls, hist >>
    /\ UNCHANGED << dbvars, ivars, tvars >>

\* TwitchState::processMessage, lines 107-126: a chat line that is not a
\* command goes to the Markov queue, and every chat line goes to the log
processMessage(inp, ran_cmd) ==
    /\ Len(messageLog) < MaxChat
    /\ IF ~ran_cmd
       THEN /\ queue' = process(queue, inp.msg, inp.emotes, hist.nextId)
            /\ hist' = [hist EXCEPT !.nextId = @ + 1]
       ELSE UNCHANGED << queue, hist >>
    /\ messageLog' = Append(messageLog,
            [message |-> inp.msg, emotePositions |-> inp.emotes, isCommand |-> ran_cmd])
    /\ UNCHANGED << markov, mlock, worker, retrainingTotalSize, retrainingCompleted,
                    rt, sd, markovFile, calls >>
    /\ UNCHANGED << dbvars, ivars, tvars >>

\* shutdown(), line 267: push the stop entry
ShutdownPush ==
    /\ sd = "idle"
    /\ queue' = queue_push(queue, QueuedMsg_stop(hist.nextId))
    /\ hist' = [hist EXCEPT !.nextId = @ + 1, !.stopId = hist.nextId]
    /\ sd' = "join"
    /\ UNCHANGED << markov, mlock, worker, retrainingTotalSize, retrainingCompleted,
                    messageLog, rt, markovFile, calls >>
    /\ UNCHANGED << dbvars, ivars, tvars >>

\* shutdown(), lines 270-271: join returns once the worker has exited
ShutdownJoin ==
    /\ sd = "join"
    /\ worker.pc = "exited"
    /\ sd' = "returned"
    /\ UNCHANGED << queue, markov, mlock, worker, retrainingTotalSize, retrainingCompleted,
                    messageLog, rt, markovFile, calls, hist >>
    /\ UNCHANGED << dbvars, ivars, tvars >>

(* ------------------------------------------------------------------ *)
(* MarkovDB::serialise / MarkovDB::deserialise                         *)
(* ------------------------------------------------------------------ *)
\* lines 696-699: the table and the word list are written, wordIndices is not
MarkovDB_serialise ==
    /\ calls.reload < MaxReload
    /\ mlock = "free"
    /\ markovFile' = [present |-> TRUE, table |-> markov.table, wordList |-> markov.wordList]
    /\ calls' = [calls EXCEPT !.reload = @ + 1]
    /\ UNCHANGED << queue, markov, mlock, worker, retrainingTotalSize, retrainingCompleted,
                    messageLog, rt, sd, hist >>
    /\ UNCHANGED << dbvars, ivars, tvars >>

\* lines 757-760: wordIndices[wordList[i].word] = i for i = 2 .. size - 1
RECURSIVE populate_indices(_, _, _)
populate_indices(wordIndices, wordList, i) ==
    IF ~(i < Len(wordList)) THEN wordIndices
    ELSE LET key == wordList[i + 1].word
         IN  populate_indices(
                [x \in DOMAIN wordIndices \cup {key} |-> IF x = key THEN i ELSE wordIndices[x]],
                wordList, i + 1)

\* lines 728-760: the model that decoding a saved payload leaves in theMarkovModel
deserialise_model(file) ==
    LET ret0 == [MarkovModel EXCEPT !.table = file.table, !.wordList = file.wordList]
        ret == IF ret0.wordList = <<>> THEN initialise_model(ret0) ELSE ret0
    IN  [ret EXCEPT !.wordIndices = populate_indices(@, ret.wordList, IDX_END_MARKER + 1)]

\* MarkovDB::deserialise as load() runs it when the process starts again
\* from the last snapshot: the queue and the worker of the new process are fresh
MarkovDB_deserialise ==
    /\ markovFile.present
    /\ mlock = "free"
    /\ markov' = deserialise_model(markovFile)
    /\ queue' = <<>>
    /\ worker' = IdleWorker
    /\ retrainingTotalSize' = 0
    /\ retrainingCompleted' = 0
    /\ hist' = [hist EXCEPT !.disturbed = TRUE, !.rtClean = FALSE]
    /\ UNCHANGED << mlock, messageLog, rt, sd, markovFile, calls >>
    /\ UNCHANGED << dbvars, ivars, tvars >>

(* ================================================================== *)
(* datastore/database.cpp                                              *)
(* ================================================================== *)
(* A file is a sequence of cells, one per serialised field; a cell    *)
(* carries the kind of the field and its value, and a reader that     *)
(* finds a cell of another kind where it expects one fails to decode. *)
DB_MAGIC   == "ikura_db"
DB_VERSION == 1

Cell(t, v) == [t |-> t, v |-> v]
ZeroCell   == Cell("zero", 0)

\* struct Superblock: magic, version, flags, timestamp
Superblock(magic, version, flags, timestamp) ==
    << Cell("magic", magic), Cell("u32", version), Cell("u32", flags), Cell("u64", timestamp) >>
SuperblockCells == 4

\* the type tags of serialise.h
TAG_TWITCH_DB    == 1
TAG_INTERP_STATE == 2

\* a value-initialised Database, as the static TheDatabase starts out
EmptyDatabase ==
    [magic |-> "", version |-> 0, flags |-> 0, timestamp |-> 0,
     twitchData  |-> [knownTwitchUsers |-> 0, knownTwitchIdMappings |-> 0],
     interpState |-> 0]

\* Database::create
Database_create(now) ==
    [EmptyDatabase EXCEPT !.magic = DB_MAGIC, !.flags = 0, !.version = DB_VERSION,
                          !.timestamp = now]

\* TwitchDB::serialise
TwitchDB_serialise(td) ==
    << Cell("tag", TAG_TWITCH_DB),
       Cell("map", td.knownTwitchUsers), Cell("map", td.knownTwitchIdMappings) >>

\* DbInterpState::serialise
DbInterpState_serialise(is) == << Cell("tag", TAG_INTERP_STATE), Cell("map", is) >>

\* Database::serialise: the superblock is stamped with the current time
Database_serialise(db, now) ==
    Superblock(db.magic, db.version, db.flags, now)
        \o TwitchDB_serialise(db.twitchData)
        \o DbInterpState_serialise(db.interpState)

Undecoded(why) == [ok |-> FALSE, why |-> why]

\* TwitchDB::deserialise
TwitchDB_deserialise(buf) ==
    IF Len(buf) < 1 \/ buf[1] # Cell("tag", TAG_TWITCH_DB) THEN Undecoded("type tag mismatch")
    ELSE IF Len(buf) < 2 \/ buf[2].t # "map" THEN Undecoded("failed to read twitch users")
    ELSE IF Len(buf) < 3 \/ buf[3].t # "map" THEN Undecoded("failed to read twitch ids")
    ELSE [ok |-> TRUE,
          value |-> [knownTwitchUsers |-> buf[2].v, knownTwitchIdMappings |-> buf[3].v],
          rest |-> drop(buf, 3)]

\* DbInterpState::deserialise
DbInterpState_deserialise(buf) ==
    IF Len(buf) < 1 \/ buf[1] # Cell("tag", TAG_INTERP_STATE) THEN Undecoded("type tag mismatch")
    ELSE IF Len(buf) < 2 \/ buf[2].t # "map" THEN Undecoded("failed to read commands")
    ELSE [ok |-> TRUE, value |-> buf[2].v, rest |-> drop(buf, 2)]

\* Database::deserialise
Database_deserialise(buf) ==
    IF Len(buf) < SuperblockCells THEN Undecoded("database truncated")
    ELSE IF buf[1] # Cell("magic", DB_MAGIC) THEN Undecoded("invalid database identifier")
    ELSE IF buf[2] # Cell("u32", DB_VERSION) THEN Undecoded("invalid version")
    ELSE LET td == TwitchDB_deserialise(drop(buf, SuperblockCells))
         IN  IF ~td.ok THEN Undecoded("failed to read twitch data")
             ELSE LET is == DbInterpState_deserialise(td.rest)
                  IN  IF ~is.ok THEN Undecoded("failed to read command interpreter state")
                      ELSE [ok |-> TRUE,
                            db |-> [magic |-> buf[1].v, version |-> buf[2].v,
                                    flags |-> buf[3].v, timestamp |-> buf[4].v,
                                    twitchData |-> td.value, interpState |-> is.value]]

\* a file of the file system
NoFile     == [present |-> FALSE, data |-> <<>>]
File(data) == [present |-> TRUE, data |-> data]

\* write(2) of bytes at offset off of a file holding data
RECURSIVE zeros(_)
zeros(n) == IF n <= 0 THEN <<>> ELSE <<ZeroCell>> \o zeros(n - 1)
write_at(data, off, bytes) ==
    LET padded == data \o zeros(off - Len(data))
    IN  take(padded, off) \o bytes \o drop(padded, off + Len(bytes))

\* the counts write(2) may return when asked for todo cells
ShortWrites == {3, 5}

WriteResults(todo) == {todo} \cup {n \in ShortWrites : n < todo}

\* write(2) failing: it returns -1, and `todo -= -1` on the unsigned todo adds one
WriteFailed == -1

\* what lies behind the last byte of the buffer, read when todo exceeds its size
JunkCells == {ZeroCell, Cell("junk", 0)}

\* what the running sync() of a thread looks like before it is called
NoSync   == [pc |-> "off",  buf |-> <<>>, todo |-> 0, fd |-> "none", off |-> 0, failed |-> FALSE]
CallSync == [pc |-> "call", buf |-> <<>>, todo |-> 0, fd |-> "none", off |-> 0, failed |-> FALSE]
Loader   == 0
Syncers  == 1 .. MaxLoad
Threads  == {Loader} \cup Syncers
IdleLoad == [pc |-> "idle", create |-> FALSE, result |-> "none", oks |-> 0,
             before |-> [db |-> EmptyDatabase, markov |-> initialise_model(MarkovModel)]]

\* the files load() can be pointed at
ValidFile == File(Database_serialise(Database_create(1), 1))
CandidateFiles ==
    { NoFile,
      ValidFile,
      File(<<>>),
      File(take(ValidFile.data, 2)),
      File(Superblock("ikura_xx", DB_VERSION, 0, 1) \o drop(ValidFile.data, SuperblockCells)),
      File(Superblock(DB_MAGIC, 999, 0, 1) \o drop(ValidFile.data, SuperblockCells)),
      File(take(ValidFile.data, SuperblockCells + 2)),
      File(take(ValidFile.data, SuperblockCells + 3) \o <<Cell("tag", 9), Cell("map", 0)>>) }

InitDatabase ==
    /\ TheDatabase = EmptyDatabase
    /\ shadow = NoFile
    /\ ld = IdleLoad
    /\ syn = [t \in Threads |-> NoSync]
    /\ alive = TRUE
    /\ dbcalls = [load |-> 0, sync |-> 0]

\* a variant in which the read lock is taken only once the file is open
Reading_once_open(t) == syn[t].pc \in {"write", "rename"}

\* a thread holds TheDatabase for reading while it is inside sync()
Reading(t) == syn[t].pc \in {"open", "write", "rename"}
NoReaders  == \A t \in Threads : ~Reading(t)

\* sync() returns: the loader goes on to map the file, a syncer sleeps and calls again
sync_return(t) ==
    /\ syn' = [syn EXCEPT ![t] = IF t = Loader THEN NoSync ELSE CallSync]
    /\ ld' = IF t = Loader THEN [ld EXCEPT !.pc = "map"] ELSE ld

\* Database::sync, serialising into the buffer
sync_serialise(t, now) ==
    /\ alive
    /\ syn[t].pc = "call"
    /\ t # Loader => dbcalls.sync < MaxSync
    /\ syn' = [syn EXCEPT ![t].pc = "open", ![t].buf = Database_serialise(TheDatabase, now),
                          ![t].failed = FALSE]
    /\ dbcalls' = IF t = Loader THEN dbcalls ELSE [dbcalls EXCEPT !.sync = @ + 1]
    /\ UNCHANGED << TheDatabase, primary, shadow, ld, alive >>
    /\ UNCHANGED << mvars, ivars, tvars >>

\* Database::sync, open(newdb, O_WRONLY | O_TRUNC | O_CREAT)
sync_open(t, opened) ==
    /\ alive
    /\ syn[t].pc = "open"
    /\ IF opened
       THEN /\ shadow' = File(<<>>)
            /\ syn' = [syn EXCEPT ![t].pc = "write", ![t].fd = "new", ![t].off = 0,
                                  ![t].todo = Len(syn[t].buf)]
            /\ UNCHANGED ld
       ELSE /\ sync_return(t)
            /\ UNCHANGED shadow
    /\ UNCHANGED << TheDatabase, primary, alive, dbcalls >>
    /\ UNCHANGED << mvars, ivars, tvars >>

\* Database::sync, one turn of  while(todo > 0) todo -= write(fd, buf.data(), todo)
sync_write(t) ==
    /\ alive
    /\ syn[t].pc = "write"
    /\ \E n \in WriteResults(syn[t].todo) \cup {WriteFailed}, junk \in JunkCells :
       LET s == syn[t]
           bytes == take(s.buf \o <<junk>>, n)
       IN  IF n = WriteFailed
           THEN /\ ~s.failed
                /\ syn' = [syn EXCEPT ![t].todo = s.todo + 1, ![t].failed = TRUE]
                /\ UNCHANGED << primary, shadow >>
           ELSE /\ shadow' = IF s.fd = "new"
                             THEN File(write_at(shadow.data, s.off, bytes)) ELSE shadow
                /\ primary' = IF s.fd = "primary"
                              THEN File(write_at(primary.data, s.off, bytes)) ELSE primary
                /\ syn' = [syn EXCEPT ![t].off = s.off + n, ![t].todo = s.todo - n,
                                      ![t].pc = IF s.todo - n > 0 THEN "write" ELSE "rename"]
    /\ UNCHANGED << TheDatabase, ld, alive, dbcalls >>
    /\ UNCHANGED << mvars, ivars, tvars >>

\* a file descriptor keeps its file when the name of the file changes
fd_after_rename(fd) ==
    IF fd = "new" THEN "primary" ELSE IF fd = "primary" THEN "orphan" ELSE fd

\* Database::sync, close(fd) and std::fs::rename(newdb, databasePath, ec)
sync_rename(t, renamed) ==
    /\ alive
    /\ syn[t].pc = "rename"
    /\ IF renamed /\ shadow.present
       THEN /\ primary' = shadow
            /\ shadow' = NoFile
            /\ syn' = [u \in Threads |->
                         IF u = t THEN (IF t = Loader THEN NoSync ELSE CallSync)
                         ELSE [syn[u] EXCEPT !.fd = fd_after_rename(@)]]
            /\ ld' = IF t = Loader THEN [ld EXCEPT !.pc = "map"] ELSE ld
       ELSE /\ sync_return(t)
            /\ UNCHANGED << primary, shadow >>
    /\ UNCHANGED << TheDatabase, alive, dbcalls >>
    /\ UNCHANGED << mvars, ivars, tvars >>

\* load(), up to the test for the file
load_begin(create) ==
    /\ alive
    /\ ld.pc \in {"idle", "done"}
    /\ dbcalls.load < MaxLoad
    /\ dbcalls' = [dbcalls EXCEPT !.load = @ + 1]
    /\ ld' = [pc |-> IF primary.present THEN "map" ELSE IF create THEN "create" ELSE "done",
              create |-> create,
              result |-> IF ~primary.present /\ ~create THEN "fail" ELSE "none",
              oks |-> ld.oks,
              before |-> [db |-> TheDatabase, markov |-> markov]]
    /\ UNCHANGED << TheDatabase, primary, shadow, syn, alive >>
    /\ UNCHANGED << mvars, ivars, tvars >>

\* createNewDatabase: TheDatabase is replaced by a fresh one, which is then synced
createNewDatabase(now) ==
    /\ alive
    /\ ld.pc = "create"
    /\ NoReaders
    /\ TheDatabase' = Database_create(now)
    /\ syn' = [syn EXCEPT ![Loader] = CallSync]
    /\ ld' = [ld EXCEPT !.pc = "sync"]
    /\ UNCHANGED << primary, shadow, alive, dbcalls >>
    /\ UNCHANGED << mvars, ivars, tvars >>

\* the first syncer thread that is not running yet
free_syncer == CHOOSE t \in Syncers : syn[t].pc = "off" /\ \A u \in Syncers : u < t => syn[u].pc # "off"

\* load(), from mmapEntireFile to its return
load_map ==
    /\ alive
    /\ ld.pc = "map"
    /\ LET db == Database_deserialise(primary.data)
       IN  IF ~primary.present
           THEN /\ ld' = [ld EXCEPT !.pc = "done", !.result = "fail"]
                /\ UNCHANGED << TheDatabase, syn, alive >>
           ELSE IF Len(primary.data) = 0
           THEN /\ ld' = [ld EXCEPT !.pc = "done", !.result = "exit"]
                /\ alive' = FALSE
                /\ UNCHANGED << TheDatabase, syn >>
           ELSE IF ~db.ok
           THEN /\ ld' = [ld EXCEPT !.pc = "done", !.result = "fail"]
                /\ UNCHANGED << TheDatabase, syn, alive >>
           ELSE /\ NoReaders
                /\ TheDatabase' = db.db
                /\ syn' = [syn EXCEPT ![free_syncer] = CallSync]
                /\ ld' = [ld EXCEPT !.pc = "done", !.result = "ok", !.oks = @ + 1]
                /\ UNCHANGED alive
    /\ UNCHANGED << primary, shadow, dbcalls >>
    /\ UNCHANGED << mvars, ivars, tvars >>

\* update_user_creds: a chat user is recorded in the database
update_user_creds ==
    /\ alive
    /\ ld.pc = "done" /\ ld.result = "ok"
    /\ NoReaders
    /\ TheDatabase.twitchData.knownTwitchUsers < MaxUsers
    /\ TheDatabase' = [TheDatabase EXCEPT !.twitchData.knownTwitchUsers = @ + 1,
                                          !.twitchData.knownTwitchIdMappings = @ + 1]
    /\ UNCHANGED << primary, shadow, ld, syn, alive, dbcalls >>
    /\ UNCHANGED << mvars, ivars, tvars >>

\* the process is killed; the files stay as they are
Kill ==
    /\ alive
    /\ alive' = FALSE
    /\ UNCHANGED << TheDatabase, primary, shadow, ld, syn, dbcalls >>
    /\ UNCHANGED << mvars, ivars, tvars >>

\* the bot is started again
Restart ==
    /\ ~alive
    /\ dbcalls.load < MaxLoad
    /\ alive' = TRUE
    /\ TheDatabase' = EmptyDatabase
    /\ ld' = IdleLoad
    /\ syn' = [t \in Threads |-> NoSync]
    /\ UNCHANGED << primary, shadow, dbcalls >>
    /\ UNCHANGED << mvars, ivars, tvars >>

(* ================================================================== *)
(* interp/builtin.cpp                                                  *)
(* ================================================================== *)
NPOS == -1

\* str_view::find(c): the offset of the first c, or npos
RECURSIVE find_from(_, _, _)
find_from(s, c, pos) ==
    IF pos >= Len(s) THEN NPOS
    ELSE IF s[pos + 1] = c THEN pos
    ELSE find_from(s, c, pos + 1)
find(s, c) == find_from(s, c, 0)

\* str_view::substr(pos, n)
substr(s, pos, n) == IF n = NPOS THEN drop(s, pos) ELSE take(drop(s, pos), n)

\* util::split
RECURSIVE util_split(_, _)
util_split(view, delim) ==
    LET ln == find(view, delim)
    IN  IF ln # NPOS
        THEN <<take(view, ln)>> \o util_split(drop(view, ln + 1), delim)
        ELSE IF view # <<>> THEN <<view>> ELSE <<>>

\* the text of a sequence of code words, one blank between two words
RECURSIVE join_words(_)
join_words(ws) ==
    IF ws = <<>> THEN <<>>
    ELSE IF Len(ws) = 1 THEN ws[1]
    ELSE ws[1] \o <<" ">> \o join_words(Tail(ws))

HexDigits ==
    [c \in {"0", "1", "2", "3", "4", "5", "6", "7", "8", "9",
            "a", "b", "c", "d", "e", "f"} |->
        CASE c = "0" -> 0  [] c = "1" -> 1  [] c = "2" -> 2  [] c = "3" -> 3
          [] c = "4" -> 4  [] c = "5" -> 5  [] c = "6" -> 6  [] c = "7" -> 7
          [] c = "8" -> 8  [] c = "9" -> 9  [] c = "a" -> 10 [] c = "b" -> 11
          [] c = "c" -> 12 [] c = "d" -> 13 [] c = "e" -> 14 [] c = "f" -> 15]

\* strtol(str, &end, 0x10) of an unsigned string: the value of the longest
\* prefix of hex digits, after an optional 0x, and the offset where it ends
RECURSIVE strtol_digits(_, _, _)
strtol_digits(s, pos, acc) ==
    IF pos < Len(s) /\ s[pos + 1] \in DOMAIN HexDigits
    THEN strtol_digits(s, pos + 1, acc * 16 + HexDigits[s[pos + 1]])
    ELSE [value |-> acc, end |-> pos]
strtol(s) ==
    LET start == IF Len(s) >= 3 /\ s[1] = "0" /\ s[2] = "x" /\ s[3] \in DOMAIN HexDigits
                 THEN 2 ELSE 0
        r == strtol_digits(s, start, 0)
    IN  IF r.end = start THEN [value |-> 0, end |-> 0] ELSE r

\* str_view::take and str_view::drop with a count that may be npos
take_n(s, n) == IF n = NPOS THEN s ELSE take(s, n)
drop_n(s, n) == IF n = NPOS THEN <<>> ELSE drop(s, n)

\* str_view::find_first_of(chars)
RECURSIVE find_first_of_from(_, _, _)
find_first_of_from(s, chars, pos) ==
    IF pos >= Len(s) THEN NPOS
    ELSE IF s[pos + 1] \in chars THEN pos
    ELSE find_first_of_from(s, chars, pos + 1)
find_first_of(s, chars) == find_first_of_from(s, chars, 0)

\* interp::Type
T_VOID     == [t |-> "void"]
T_BOOLEAN  == [t |-> "bool"]
T_CHAR     == [t |-> "char"]
T_DOUBLE   == [t |-> "double"]
T_INTEGER  == [t |-> "int"]
get_list(elm_type)          == [t |-> "list", elm |-> elm_type]
get_map(key_type, elm_type) == [t |-> "map", key |-> key_type, elm |-> elm_type]
get_function(return_type, arg_types) == [t |-> "fn", ret |-> return_type, args |-> arg_types]
get_string == get_list(T_CHAR)

NoType == [ok |-> FALSE]
TypeOf(ty) == [ok |-> TRUE, type |-> ty]

\* ast::parseType
RECURSIVE parseType(_)
parseType(str0) ==
    LET str == trim(str0)
    IN  IF str = <<>> THEN NoType
        ELSE IF str = <<"i", "n", "t">> THEN TypeOf(T_INTEGER)
        ELSE IF str = <<"d", "b", "l">> THEN TypeOf(T_DOUBLE)
        ELSE IF str = <<"b", "o", "o", "l">> THEN TypeOf(T_BOOLEAN)
        ELSE IF str = <<"s", "t", "r">> THEN TypeOf(get_string)
        ELSE IF str = <<"v", "o", "i", "d">> THEN TypeOf(T_VOID)
        ELSE IF str[1] # "[" THEN NoType
        ELSE LET s1   == drop(str, 1)
                 tmp  == find_first_of(s1, {"[", "]", ":"})
                 k    == take_n(s1, tmp)
                 key  == parseType(k)
                 s2   == trim(drop_n(s1, tmp))
             IN  IF ~key.ok \/ drop_n(s1, tmp) = <<>> THEN NoType
                 ELSE IF s2 # <<>> /\ s2[1] = ":"
                 THEN LET s3   == drop(s2, 1)
                          tmp2 == find_first_of(s3, {"[", "]", ":"})
                          e    == trim(take_n(s3, tmp2))
                          s4   == trim(drop_n(s3, tmp2))
                          elm  == parseType(e)
                      IN  IF ~elm.ok \/ s4 = <<>> \/ s4[1] # "]" THEN NoType
                          ELSE TypeOf(get_map(key.type, elm.type))
                 ELSE IF s2 # <<>> /\ s2[1] = "]"
                 THEN TypeOf(get_list(key.type))
                 ELSE NoType

\* the names of the built-in commands
cmd_def    == <<"d", "e", "f">>
cmd_eval   == <<"e", "v", "a", "l">>
cmd_show   == <<"s", "h", "o", "w">>
cmd_redef  == <<"r", "e", "d", "e", "f">>
cmd_undef  == <<"u", "n", "d", "e", "f">>
cmd_chmod  == <<"c", "h", "m", "o", "d">>
cmd_global == <<"g", "l", "o", "b", "a", "l">>

is_builtin_command_no_show(x) ==
    x \in {cmd_def, cmd_eval, cmd_redef, cmd_undef, cmd_chmod, cmd_global}

is_builtin_command(x) ==
    x \in {cmd_def, cmd_eval, cmd_show, cmd_redef, cmd_undef, cmd_chmod, cmd_global}

\* the interpreter state the built-in commands work on
InterpState == [builtinCommandPermissions |-> <<>>, commands |-> <<>>]

\* Macro(name, raw_code): the code is the list of the words of raw_code
Macro(name, raw_code) ==
    [name |-> name, code |-> util_split(raw_code, " "), permissions |-> 0]

\* InterpState::findCommand
NoCommand == [found |-> FALSE]
findCommand(interp, name) ==
    IF name \in DOMAIN interp.commands
    THEN [found |-> TRUE, command |-> interp.commands[name]]
    ELSE NoCommand

\* InterpState::removeCommandOrAlias
removeCommandOrAlias(interp, name) ==
    [interp |-> [interp EXCEPT !.commands =
                    [n \in DOMAIN interp.commands \ {name} |-> interp.commands[n]]],
     done   |-> name \in DOMAIN interp.commands]

\* map::emplace: an existing entry is kept
emplace(map, key, value) == IF key \in DOMAIN map THEN map ELSE map @@ (key :> value)

\* cmd::verifyPermissions
RECURSIVE bit_and(_, _)
bit_and(a, b) ==
    IF a = 0 \/ b = 0 THEN 0
    ELSE (a % 2) * (b % 2) + 2 * bit_and(a \div 2, b \div 2)
verifyPermissions(required, given) == required = 0 \/ bit_and(required, given) # 0

\* what a handler leaves behind: the interpreter state and the messages it sent
Done(interp, msg) == [interp |-> interp, out |-> <<msg>>]

\* a variant of the permission lookup that finds no entry
lookup_permission_none(interp, cmd_str) == 0

\* run_builtin_command: the permission mask stored for cmd_str
lookup_permission(interp, cmd_str) ==
    IF cmd_str \in DOMAIN interp.builtinCommandPermissions
    THEN interp.builtinCommandPermissions[cmd_str]
    ELSE 0

command_chmod(interp, arg_str) ==
    LET cmd      == trim(substr(arg_str, 0, find(arg_str, " ")))
        perm_str == trim(drop(arg_str, Len(cmd)))
        r        == strtol(perm_str)
        perm     == r.value
        changed  == <<"permissions for '", cmd, "' changed to ", perm>>
    IN  IF cmd = <<>> \/ perm_str = <<>>
        THEN Done(interp, <<"not enough arguments to chmod">>)
        ELSE IF r.end # Len(perm_str)
        THEN Done(interp, <<"invalid permission string '", perm_str, "'">>)
        ELSE IF is_builtin_command(cmd)
        THEN Done([interp EXCEPT !.builtinCommandPermissions =
                      [n \in DOMAIN @ \cup {cmd} |-> IF n = cmd THEN perm ELSE @[n]]],
                  changed)
        ELSE IF ~findCommand(interp, cmd).found
        THEN Done(interp, <<"'", cmd, "' does not exist">>)
        ELSE Done([interp EXCEPT !.commands[cmd].permissions = perm], changed)

\* a variant of internal_def in which def replaces a command that exists
internal_def_overwrite(interp, redef, name, expansion) ==
    IF ~findCommand(interp, name).found /\ redef
    THEN Done(interp, <<"'", name, "' does not exist">>)
    ELSE Done([removeCommandOrAlias(interp, name).interp EXCEPT !.commands =
                  emplace(@, name, Macro(name, expansion))],
              <<IF redef THEN "redefined '" ELSE "defined '", name, "'">>)

internal_def(interp, redef, name, expansion) ==
    LET existing == findCommand(interp, name).found
        removed  == IF existing THEN removeCommandOrAlias(interp, name).interp ELSE interp
    IN  IF existing /\ ~redef
        THEN Done(interp, <<"'", name, "' is already defined">>)
        ELSE IF ~existing /\ redef
        THEN Done(interp, <<"'", name, "' does not exist">>)
        ELSE Done([removed EXCEPT !.commands = emplace(@, name, Macro(name, expansion))],
                  <<IF redef THEN "redefined '" ELSE "defined '", name, "'">>)

command_def(interp, arg_str) ==
    LET name      == trim(substr(arg_str, 0, find(arg_str, " ")))
        expansion == trim(drop(arg_str, Len(name)))
    IN  IF name = <<>> THEN Done(interp, <<"not enough arguments to 'def'">>)
        ELSE IF expansion = <<>> THEN Done(interp, <<"'def' expansion cannot be empty">>)
        ELSE internal_def(interp, FALSE, name, expansion)

command_redef(interp, arg_str) ==
    LET name      == trim(substr(arg_str, 0, find(arg_str, " ")))
        expansion == trim(drop(arg_str, Len(name)))
    IN  IF name = <<>> THEN Done(interp, <<"not enough arguments to 'redef'">>)
        ELSE IF expansion = <<>> THEN Done(interp, <<"'redef' expansion cannot be empty">>)
        ELSE internal_def(interp, TRUE, name, expansion)

command_undef(interp, arg_str) ==
    IF find(arg_str, " ") # NPOS \/ arg_str = <<>>
    THEN Done(interp, <<"'undef' takes exactly 1 argument">>)
    ELSE LET r == removeCommandOrAlias(interp, arg_str)
         IN  Done(r.interp, IF r.done THEN <<"removed '", arg_str, "'">>
                                      ELSE <<"'", arg_str, "' does not exist">>)

command_show(interp, arg_str) ==
    IF find(arg_str, " ") # NPOS \/ arg_str = <<>>
    THEN Done(interp, <<"'show' takes exactly 1 argument">>)
    ELSE IF is_builtin_command(arg_str)
    THEN Done(interp, <<"'", arg_str, "' is a builtin command">>)
    ELSE LET cmd == findCommand(interp, arg_str)
         IN  IF ~cmd.found THEN Done(interp, <<"'", arg_str, "' does not exist">>)
             ELSE Done(interp, <<"'", arg_str, "' is defined as: ">> \o cmd.command.code)

\* InterpState::evaluateExpr: the evaluator is outside this model; it leaves
\* the command registry and the permission table as it finds them
evaluateExpr(interp, expr) == [interp |-> interp, value |-> expr]

command_eval(interp, arg_str) ==
    LET ret == evaluateExpr(interp, arg_str)
    IN  Done(ret.interp, <<"value: ", ret.value>>)

\* InterpState::addGlobal: the globals are not part of the modelled state
addGlobal(interp, name, value) == interp

command_global(interp, arg_str) ==
    LET name     == trim(substr(arg_str, 0, find(arg_str, " ")))
        type_str == trim(drop(arg_str, Len(name)))
        value    == parseType(type_str)
    IN  IF name = <<>> \/ type_str = <<>>
        THEN Done(interp, <<"not enough arguments to global">>)
        ELSE IF ~value.ok
        THEN Done(interp, <<"invalid type '", type_str, "'">>)
        ELSE Done(addGlobal(interp, name, value.type),
                  <<"added global '", name, "' with type '", value.type, "'">>)

\* builtin_cmds: the handler of each built-in command
builtin_cmds(cmd_str, interp, arg_str) ==
    CASE cmd_str = cmd_chmod -> command_chmod(interp, arg_str)
      [] cmd_str = cmd_eval  -> command_eval(interp, arg_str)
      [] cmd_str = cmd_global -> command_global(interp, arg_str)
      [] cmd_str = cmd_def   -> command_def(interp, arg_str)
      [] cmd_str = cmd_redef -> command_redef(interp, arg_str)
      [] cmd_str = cmd_undef -> command_undef(interp, arg_str)
      [] cmd_str = cmd_show  -> command_show(interp, arg_str)

\* run_builtin_command: the state it leaves, the messages it sent, whether a
\* handler ran and the value it returns
run_builtin(interp, user_perms, cmd_str, arg_str) ==
    LET perm == lookup_permission(interp, cmd_str)
    IN  IF ~verifyPermissions(perm, user_perms)
        THEN [interp |-> interp, out |-> << <<"insufficient permissions">> >>,
              ran |-> FALSE, ret |-> TRUE]
        ELSE IF is_builtin_command(cmd_str)
        THEN LET h == builtin_cmds(cmd_str, interp, arg_str)
             IN  [interp |-> h.interp, out |-> h.out, ran |-> TRUE, ret |-> TRUE]
        ELSE [interp |-> interp, out |-> <<>>, ran |-> FALSE, ret |-> FALSE]

\* the commands, arguments and callers of this model
CommandStrings == {cmd_chmod, cmd_def, cmd_redef, cmd_undef, cmd_show, <<"f", "o", "o">>}
Names          == {<<"a">>, cmd_def}
Bodies         == {<<>>, <<"b", " ", "c">>, <<"2">>, <<"0">>}
UserPermissions == {0, 1, 3}
arg_of(name, body) == IF body = <<>> THEN name ELSE name \o <<" ">> \o body

\* the macro a command line resolves to when it names no built-in command
NoMacro == <<>>

NoDispatch == [n |-> 0, cmd_str |-> <<>>, user_perms |-> 0, handler |-> FALSE,
               denied |-> FALSE, macro |-> NoMacro]

\* no function of the interpreter or a backend has been called
NoCallMade == [fn |-> "none"]

NoCall ==
    [cmd_str |-> <<>>, name |-> <<>>, body |-> <<>>, user_perms |-> 0,
     ran |-> FALSE, ret |-> FALSE, out |-> <<>>, pre |-> InterpState]

InitInterp ==
    /\ interpreter = InterpState
    /\ last = NoCall
    /\ icalls = 0
    /\ disp = NoDispatch

\* a chat user issues a built-in command
run_builtin_command(user_perms, cmd_str, name, body) ==
    /\ icalls < MaxCommands
    /\ LET r == run_builtin(interpreter, user_perms, cmd_str, arg_of(name, body))
       IN  /\ interpreter' = r.interp
           /\ last' = [cmd_str |-> cmd_str, name |-> name, body |-> body,
                       user_perms |-> user_perms, ran |-> r.ran, ret |-> r.ret,
                       out |-> r.out, pre |-> interpreter]
    /\ icalls' = icalls + 1
    /\ UNCHANGED << disp, call >>
    /\ UNCHANGED << mvars, dbvars, tvars >>

\* cmd::processMessage: a command line goes to run_builtin_command first, and
\* to the user's command of that name only when that returns false
processCommand(user_perms, cmd_str, arg_str) ==
    /\ disp.n < MaxDispatch
    /\ LET r == run_builtin(interpreter, user_perms, cmd_str, arg_str)
           c == findCommand(interpreter, cmd_str)
       IN  /\ interpreter' = r.interp
           /\ disp' = [n |-> disp.n + 1, cmd_str |-> cmd_str, user_perms |-> user_perms,
                       handler |-> r.ran,
                       denied |-> r.ret /\ ~r.ran,
                       macro |-> IF ~r.ret /\ c.found
                                      /\ verifyPermissions(c.command.permissions, user_perms)
                                 THEN c.command.name ELSE NoMacro]
    /\ UNCHANGED << last, icalls, call >>
    /\ UNCHANGED << mvars, dbvars, tvars >>

\* the command lines of the dispatcher: each built-in name, invoked with the
\* name of a built-in command and a body as its argument
BuiltinNameList == << cmd_def, cmd_redef, cmd_undef, cmd_show, cmd_chmod, cmd_global, cmd_eval >>
DispatchNames  == {BuiltinNameList[n] : n \in 1 .. Len(BuiltinNameList)}
DispatchBodies == {<<>>, <<"2">>}

(* ================================================================== *)
(* backends/twitch/message.cpp: PRIVMSG frames                         *)
(* ================================================================== *)
\* config::twitch: the bot's own name, its owner and the users it ignores
TwitchUsername == "ikurabot"
TwitchOwner    == "owner"
IgnoredUsers   == {"spammer"}
isUserIgnored(id) == id \in IgnoredUsers

\* TwitchState::channels: the joined channels and whether the bot lurks there
JoinedChannels == (<<"a">> :> [lurk |-> FALSE]) @@ (<<"b">> :> [lurk |-> TRUE])

\* a variant of the lurk test that never finds the channel lurking
lurking_never(chans, channel) == FALSE

\* this->channels[channel].lurk
lurking(chans, channel) == chans[channel].lurk

\* permissions::*, as the set of roles whose bits are set
EVERYONE    == "everyone"
OWNER       == "owner"
SUBSCRIBER  == "subscriber"
VIP         == "vip"
MODERATOR   == "moderator"
BROADCASTER == "broadcaster"

\* the role a badge grants, by the prefix of its name
badge_perms(b) ==
    IF b.name \in {"subscriber", "founder"} THEN {SUBSCRIBER}
    ELSE IF b.name = "vip" THEN {VIP}
    ELSE IF b.name = "moderator" THEN {MODERATOR}
    ELSE IF b.name = "broadcaster" THEN {BROADCASTER}
    ELSE {}

tag(tags, key, default) == IF key \in DOMAIN tags THEN tags[key] ELSE default

\* TwitchUser and TwitchUserCredentials as operator[] creates them
TwitchUser == [id |-> <<>>, username |-> "", displayname |-> ""]
TwitchUserCredentials == [permissions |-> {}, subscribedMonths |-> 0]
TwitchChannel == [knownUsers |-> <<>>, userCredentials |-> <<>>]

\* operator[] of a map: the entry, created with its default when missing
at(map, key, default) == IF key \in DOMAIN map THEN map[key] ELSE default
put(map, key, value) == [k \in DOMAIN map \cup {key} |-> IF k = key THEN value ELSE map[k]]

\* a variant of the user update that leaves the id of the record alone
tuser_update_keep_id(tuser, user, displayname, userid) ==
    [tuser EXCEPT !.username = user, !.displayname = displayname]

\* update_user_creds, lines 213-229: the record of the user
tuser_update(tuser, user, displayname, userid) ==
    LET named == [tuser EXCEPT !.username = user, !.displayname = displayname]
    IN  IF named.id = <<>> THEN [named EXCEPT !.id = userid]
        ELSE IF named.id # userid THEN [named EXCEPT !.id = userid]
        ELSE named

\* update_user_creds applied to db.twitchData.channels; the user id it returns
\* is empty when the frame carried none, and then nothing is stored
update_user_creds_in(channels, user, channel, tags) ==
    LET userid      == tag(tags, "user-id", <<>>)
        displayname == tag(tags, "display-name", "")
        badges      == tag(tags, "badges", <<>>)
        info        == tag(tags, "badge-info", <<>>)
        perms       == {EVERYONE} \cup (IF TwitchOwner = user THEN {OWNER} ELSE {})
                         \cup UNION {badge_perms(badges[i]) : i \in DOMAIN badges}
        subs        == {i \in DOMAIN info : info[i].name \in {"subscriber", "founder"}}
        sublen      == IF subs = {} THEN 0
                       ELSE info[CHOOSE i \in subs : \A j \in subs : j <= i].version
        tchan       == at(channels, channel, TwitchChannel)
        tuser       == tuser_update(at(tchan.knownUsers, userid, TwitchUser),
                                    user, displayname, userid)
        creds       == [at(tchan.userCredentials, userid, TwitchUserCredentials)
                            EXCEPT !.permissions = perms, !.subscribedMonths = sublen]
    IN  IF userid = <<>>
        THEN [channels |-> channels, userid |-> <<>>]
        ELSE [channels |-> put(channels, channel,
                               [knownUsers      |-> put(tchan.knownUsers, userid, tuser),
                                userCredentials |-> put(tchan.userCredentials, userid, creds)]),
              userid |-> userid]

\* the PRIVMSG frames the server delivers
FrameUsers    == {TwitchUsername, "spammer", "alice", TwitchOwner}
FrameChannels == {<<"#", "a">>, <<"#", "b">>, <<"a">>}
badge(name, version) == [name |-> name, version |-> version]
FrameTags ==
    { <<>>,
      "user-id" :> <<>>,
      "user-id" :> <<"1">>,
      ("user-id" :> <<"2">>) @@ ("display-name" :> "Al"),
      ("user-id" :> <<"2">>) @@ ("badges" :> <<badge("moderator", 1), badge("founder", 0)>>)
                             @@ ("badge-info" :> <<badge("founder", 7)>>) }

NothingSeen == [n |-> 0, user |-> "", channel |-> <<>>, tags |-> <<>>, dispatched |-> FALSE,
                ran_cmd |-> FALSE, queued |-> 0, logged |-> 0, command |-> FALSE]

InitTwitch ==
    /\ twitchChannels = <<>>
    /\ seen = NothingSeen

\* what the handler did for the frame, read off the queue and the log
Seen(frame, dispatched, ran_cmd, q, lg) ==
    [n |-> seen.n + 1, user |-> frame.user, channel |-> frame.channel, tags |-> frame.tags,
     dispatched |-> dispatched, ran_cmd |-> ran_cmd,
     queued |-> Len(q) - Len(queue), logged |-> Len(lg) - Len(messageLog),
     command |-> Len(lg) > Len(messageLog) /\ lg[Len(lg)].isCommand]

\* TwitchState::processMessage, the PRIVMSG branch (lines 68-129); `ran` is
\* what cmd::processMessage returns when it is called
TwitchState_processMessage(frame, inp, ran) ==
    /\ seen.n < MaxFrames
    /\ Len(messageLog) < MaxChat
    /\ LET channel == drop(frame.channel, 1)
           creds   == update_user_creds_in(twitchChannels, frame.user, channel, frame.tags)
           ran_cmd == IF ~lurking(JoinedChannels, channel) THEN ran ELSE FALSE
       IN  IF \/ frame.user = TwitchUsername
              \/ isUserIgnored(frame.user)
              \/ frame.channel[1] # "#"
           THEN /\ seen' = Seen(frame, FALSE, FALSE, queue, messageLog)
                /\ UNCHANGED << queue, hist, messageLog, twitchChannels >>
           ELSE IF creds.userid = <<>>
           THEN /\ seen' = Seen(frame, FALSE, FALSE, queue, messageLog)
                /\ UNCHANGED << queue, hist, messageLog, twitchChannels >>
           ELSE /\ twitchChannels' = creds.channels
                /\ IF ~ran_cmd
                   THEN /\ queue' = process(queue, inp.msg, inp.emotes, hist.nextId)
                        /\ hist' = [hist EXCEPT !.nextId = @ + 1]
                   ELSE UNCHANGED << queue, hist >>
                /\ messageLog' = Append(messageLog,
                        [message |-> inp.msg, emotePositions |-> inp.emotes,
                         isCommand |-> ran_cmd])
                /\ seen' = Seen(frame, ~lurking(JoinedChannels, channel), ran_cmd,
                                queue', messageLog')
    /\ UNCHANGED << markov, mlock, worker, retrainingTotalSize, retrainingCompleted,
                    rt, sd, markovFile, calls >>
    /\ UNCHANGED << dbvars, ivars >>

\* TwitchState::sendMessage: the limit on a PRIVMSG line, 500 in the source,
\* scaled down with the messages
LIMIT == 3

\* a codepoint that takes two bytes in UTF-8; every other one takes one
WideChar == "E"
RECURSIVE utf8_size(_)
utf8_size(cps) ==
    IF cps = <<>> THEN 0
    ELSE (IF Head(cps) = WideChar THEN 2 ELSE 1) + utf8_size(Tail(cps))

\* span::find_last
RECURSIVE find_last(_, _)
find_last(span, x) ==
    IF span = <<>> THEN NPOS
    ELSE IF span[Len(span)] = x THEN Len(span) - 1
    ELSE find_last(take(span, Len(span) - 1), x)

\* the call never returns: it calls itself with the message it was given
Overflow == [lines |-> <<>>, returns |-> FALSE]
Sent(lines) == [lines |-> lines, returns |-> TRUE]

\* sendMessage on a fragment of the loop, which has at most LIMIT codepoints:
\* one line when its bytes fit, and otherwise the split branch again, whose
\* only fragment is the message itself
send_fragment(frag) ==
    LET msg == trim(frag)
    IN  IF utf8_size(msg) > LIMIT THEN Overflow ELSE Sent(<<msg>>)

\* the loop of lines 353-371 over the codepoints not yet sent
RECURSIVE send_loop(_, _)
send_loop(span, lines) ==
    IF Len(span) = 0 THEN Sent(lines)
    ELSE LET found == find_last(take(span, LIMIT), " ")
             spl   == IF found = NPOS THEN LIMIT ELSE found
             frag  == IF Len(span) > LIMIT THEN take(span, spl) ELSE span
             rest  == drop(span, Len(frag) + 1)
             sent  == send_fragment(frag)
         IN  IF frag = <<>> THEN send_loop(rest, lines)
             ELSE IF ~sent.returns THEN Overflow
             ELSE send_loop(rest, lines \o sent.lines)

\* TwitchState::sendMessage: the PRIVMSG lines it sends, in order
sendMessage(msg0) ==
    LET msg == trim(msg0)
    IN  IF utf8_size(msg) > LIMIT
        THEN IF Len(msg) <= LIMIT THEN Overflow ELSE send_loop(msg, <<>>)
        ELSE Sent(<<msg>>)

\* the outbound messages: every text of up to MaxMsgLen codepoints
Codepoints == {"a", " ", WideChar}
Messages == UNION {[1 .. n -> Codepoints] : n \in 0 .. MaxMsgLen}

InitSend == call \in {[fn |-> "sendMessage", msg |-> m, done |-> FALSE] : m \in Messages}

\* the bot sends the message
call_sendMessage ==
    /\ call.fn = "sendMessage" /\ ~call.done
    /\ call' = [fn |-> "sendMessage", msg |-> call.msg, done |-> TRUE,
                out |-> sendMessage(call.msg)]
    /\ UNCHANGED << interpreter, last, icalls, disp >>
    /\ UNCHANGED << mvars, dbvars, tvars >>

(* ================================================================== *)
(* specifications                                                      *)
(* ================================================================== *)
\* one step of the worker thread
worker_thread == WorkerPop \/ WorkerIndices \/ WorkerTable \/ WorkerWord \/ WorkerCount

\* the state after construction, with no database file
InitCall == call = NoCallMade

Init == InitMarkov /\ InitDatabase /\ primary = NoFile /\ InitInterp /\ InitTwitch /\ InitCall

\* the chat thread, the Markov worker and reset()
NextIngest ==
    \/ WorkerPop \/ WorkerIndices \/ WorkerTable \/ WorkerWord \/ WorkerCount
    \/ Reset
    \/ \E inp \in ChatInputs, ran_cmd \in BOOLEAN : processMessage(inp, ran_cmd)

SpecIngest == Init /\ [][NextIngest]_vars

\* the chat thread, the Markov worker and retrain()
NextRetrain ==
    \/ WorkerPop \/ WorkerIndices \/ WorkerTable \/ WorkerWord \/ WorkerCount
    \/ RetrainReset \/ RetrainRead \/ RetrainPush \/ RetrainReturn
    \/ \E inp \in ChatInputs, ran_cmd \in BOOLEAN : processMessage(inp, ran_cmd)

SpecRetrain == Init /\ [][NextRetrain]_vars

\* retrain() runs on a thread of its own, as does the worker
SpecRetrainFair ==
    /\ SpecRetrain
    /\ WF_vars(worker_thread)
    /\ WF_vars(RetrainRead \/ RetrainPush \/ RetrainReturn)

\* the chat thread and the worker, with the model saved and loaded again
NextReload ==
    \/ WorkerPop \/ WorkerIndices \/ WorkerTable \/ WorkerWord \/ WorkerCount
    \/ \E inp \in ChatInputs, ran_cmd \in BOOLEAN : processMessage(inp, ran_cmd)
    \/ MarkovDB_serialise \/ MarkovDB_deserialise

SpecReload == Init /\ [][NextReload]_vars

\* the chat thread and the worker, with shutdown()
NextShutdown ==
    \/ WorkerPop \/ WorkerIndices \/ WorkerTable \/ WorkerWord \/ WorkerCount
    \/ \E inp \in ChatInputs, ran_cmd \in BOOLEAN : processMessage(inp, ran_cmd)
    \/ ShutdownPush \/ ShutdownJoin

SpecShutdown == Init /\ [][NextShutdown]_vars

\* the worker is a thread of its own and join() returns once it has ended
SpecShutdownFair ==
    /\ SpecShutdown
    /\ WF_vars(worker_thread)
    /\ WF_vars(ShutdownJoin)

\* load(), the background syncers, the chat thread's database writes, and
\* the process being killed and started again
NextDatabase ==
    \/ \E create \in BOOLEAN : load_begin(create)
    \/ \E now \in Timestamps : createNewDatabase(now)
    \/ load_map
    \/ \E t \in Threads, now \in Timestamps : sync_serialise(t, now)
    \/ \E t \in Threads, opened \in BOOLEAN : sync_open(t, opened)
    \/ \E t \in Threads : sync_write(t)
    \/ \E t \in Threads, renamed \in BOOLEAN : sync_rename(t, renamed)
    \/ update_user_creds
    \/ Kill
    \/ Restart

\* the database file is absent or was written by a completed sync()
InitSync ==
    InitMarkov /\ InitDatabase /\ primary \in {NoFile, ValidFile} /\ InitInterp /\ InitTwitch /\ InitCall

SpecSync == InitSync /\ [][NextDatabase]_vars

\* one run of the process: load(), the syncers and the chat thread's writes
NextSnapshot ==
    \/ \E create \in BOOLEAN : load_begin(create)
    \/ \E now \in Timestamps : createNewDatabase(now)
    \/ load_map
    \/ \E t \in Threads, now \in Timestamps : sync_serialise(t, now)
    \/ \E t \in Threads, opened \in BOOLEAN : sync_open(t, opened)
    \/ \E t \in Threads : sync_write(t)
    \/ \E t \in Threads, renamed \in BOOLEAN : sync_rename(t, renamed)
    \/ update_user_creds

\* a process that calls load() once: the database file is absent or was
\* written by a completed sync()
InitSnapshot ==
    /\ InitMarkov /\ InitInterp /\ InitTwitch /\ InitCall
    /\ primary \in {NoFile, ValidFile}
    /\ TheDatabase = EmptyDatabase
    /\ shadow = NoFile
    /\ ld = IdleLoad
    /\ syn = [t \in Threads |-> NoSync]
    /\ alive = TRUE
    /\ dbcalls = [load |-> MaxLoad - 1, sync |-> 0]

SpecSnapshot == InitSnapshot /\ [][NextSnapshot]_vars

\* the database file is anything load() may be handed
InitLoad ==
    InitMarkov /\ InitDatabase /\ primary \in CandidateFiles /\ InitInterp /\ InitTwitch /\ InitCall

SpecLoad == InitLoad /\ [][NextDatabase]_vars

\* chat users issuing built-in commands, one at a time
NextInterp ==
    \E user_perms \in UserPermissions, cmd_str \in CommandStrings,
       name \in Names, body \in Bodies :
        run_builtin_command(user_perms, cmd_str, name, body)

SpecInterp == Init /\ [][NextInterp]_vars

\* chat users issuing command lines that name built-in commands
NextDispatch ==
    \E user_perms \in UserPermissions, cmd_str \in DispatchNames,
       name \in DispatchNames, body \in DispatchBodies :
        processCommand(user_perms, cmd_str, arg_of(name, body))

SpecDispatch == Init /\ [][NextDispatch]_vars

\* the Twitch connection delivering PRIVMSG frames, the Markov worker idle
NextTwitch ==
    \E frame \in [user : FrameUsers, channel : FrameChannels, tags : FrameTags],
       inp \in ChatInputs, ran \in BOOLEAN :
        TwitchState_processMessage(frame, inp, ran)

SpecTwitch == Init /\ [][NextTwitch]_vars

\* the bot sending one chat message
InitSendMessage ==
    InitMarkov /\ InitDatabase /\ primary = NoFile /\ InitInterp /\ InitTwitch /\ InitSend

NextSendMessage == call_sendMessage

SpecSendMessage == InitSendMessage /\ [][NextSendMessage]_vars

(* ------------------------------------------------------------------ *)
(* properties of the Markov model                                      *)
(* ------------------------------------------------------------------ *)
RECURSIVE SumFrequency(_)
SumFrequency(words) ==
    IF words = <<>> THEN 0 ELSE Head(words).frequency + SumFrequency(Tail(words))

\* C1: whenever the model lock is not held for writing, every WordList of
\* the transition table has totalFrequency equal to the sum of the
\* frequencies of its words.
C1_TotalFrequencyIsSum ==
    mlock = "free" =>
        \A h \in DOMAIN markov.table :
            markov.table[h].totalFrequency = SumFrequency(markov.table[h].words)

\* a WordList with two different words, built after a reset()
C1_Witness ==
    /\ mlock = "free"
    /\ calls.reset = 1
    /\ \E h \in DOMAIN markov.table :
          /\ Len(markov.table[h].words) >= 2
          /\ markov.table[h].totalFrequency >= 2

\* the count the table holds for target t under prefix hash h
RECURSIVE FrequencyOf(_, _)
FrequencyOf(words, t) ==
    IF words = <<>> THEN 0
    ELSE (IF Head(words).index = t THEN Head(words).frequency ELSE 0)
         + FrequencyOf(Tail(words), t)

Count(table, h, t) ==
    IF h \in DOMAIN table THEN FrequencyOf(table[h].words, t) ELSE 0

\* the positions (i, k) of an index sequence w that have prefix hash h and target t
Occurrences(w, h, t) ==
    Cardinality({ p \in (0 .. Len(w) - 1) \X (1 .. 3) :
                    /\ p[1] + p[2] < Len(w)
                    /\ hash_prefix(SubSeq(w, p[1] + 1, p[1] + p[2])) = h
                    /\ w[p[1] + p[2] + 1] = t })

IndexRange(w) == { w[n] : n \in 1 .. Len(w) }

PrefixHashes(w) ==
    { hash_prefix(SubSeq(w, p[1] + 1, p[1] + p[2])) :
        p \in { q \in (0 .. Len(w) - 1) \X (1 .. 3) : q[1] + q[2] < Len(w) } }

\* the log holds only copies of one message that was never a command
SameMessageOnly ==
    /\ messageLog # <<>>
    /\ \A n \in 1 .. Len(messageLog) :
          /\ messageLog[n].message = messageLog[1].message
          /\ messageLog[n].emotePositions = messageLog[1].emotePositions
          /\ ~messageLog[n].isCommand

\* C4: an ingest that no reset() interrupts adds, for every position i and
\* every k in 1..3 with i+k < n, exactly one count to target w[i+k] under the
\* prefix w[i..i+k-1] and changes no other count; and m ingests of one
\* message of distinct words into an empty model leave every single-word
\* prefix transition along it with frequency m.
C4_IngestCounts ==
    /\ (worker.pc = "count" /\ worker.words # <<>> /\ ~hist.disturbed) =>
          \A h \in DOMAIN markov.table \cup DOMAIN hist.base \cup PrefixHashes(worker.words) :
             \A t \in 0 .. Len(markov.wordList) :
                Count(markov.table, h, t)
                    = Count(hist.base, h, t) + Occurrences(worker.words, h, t)
    /\ (/\ worker.pc \in {"pop", "count"}
        /\ queue = <<>>
        /\ calls.reset = 0
        /\ SameMessageOnly
        /\ worker.words # <<>>
        /\ Cardinality(IndexRange(worker.words)) = Len(worker.words)) =>
          \A n \in 1 .. Len(worker.words) - 1 :
             Count(markov.table, hash_prefix(<<worker.words[n]>>), worker.words[n + 1])
                = Len(hist.applied)

\* "a b" ingested twice: START -> a, a -> b and b -> END all have frequency 2
C4_Witness ==
    /\ worker.pc = "count"
    /\ ~hist.disturbed
    /\ worker.words = <<0, 2, 3, 1>>
    /\ Count(markov.table, hash_prefix(<<0>>), 2) = 2
    /\ Count(markov.table, hash_prefix(<<2>>), 3) = 2
    /\ Count(markov.table, hash_prefix(<<3>>), 1) = 2
    /\ Count(markov.table, hash_prefix(<<0, 2, 3>>), 1) = 2

\* C7: the worker applies the model updates of the queued messages in the
\* order in which process() enqueued them: all updates of an earlier message
\* come before any update of a later one.
C7_FifoIngest ==
    \A p, q \in 1 .. Len(hist.applied) :
        p < q => hist.applied[p] < hist.applied[q]

\* two chat messages have both been ingested
C7_Witness ==
    /\ Len(hist.applied) >= 2
    /\ worker.pc = "count"
    /\ Len(messageLog) = 2

\* process_one run to completion on a model, with no random discard
RECURSIVE ingest_updates(_, _, _, _)
ingest_updates(table, words, i, k) ==
    IF ~in_loop(words, i, k) THEN table
    ELSE LET h == hash_prefix(prefix_at(words, i, k))
             n == next_ik(words, i, k)
             counted == bump_word(bump_total(table, h), h, target_at(words, i, k))
         IN  \* the table counted into is evaluated here, at every turn, and is
             \* never empty
             IF DOMAIN counted = {} THEN counted
             ELSE ingest_updates(counted, words, n.i, n.k)

IngestOne(model, msg, emotes) ==
    LET word_arr == split_words(msg, emotes)
    IN  IF Len(word_arr) < MIN_INPUT_LENGTH THEN model
        ELSE LET r == map_word_indices(model, word_arr)
             IN  [r.markov EXCEPT !.table = ingest_updates(@, r.ret, 0, 1)]

\* process_one for a draw x, with no other thread at the model
process_one(model, msg, emotes, x) ==
    IF length_filter(Len(split_words(msg, emotes)), x) = "ingest"
    THEN IngestOne(model, msg, emotes) ELSE model

RECURSIVE IngestAll(_, _)
IngestAll(model, msgs) ==
    IF msgs = <<>> THEN model
    ELSE IngestAll(IngestOne(model, Head(msgs).message, Head(msgs).emotePositions), Tail(msgs))

NotFlagged(log) == SelectSeq(log, LAMBDA m : ~m.isCommand)

\* no unflagged message of the log begins with '!' or '$', the two prefixes
\* retrain() treats as commands as well
FlagCoversPrefixes ==
    \A n \in 1 .. Len(messageLog) :
        \/ messageLog[n].isCommand
        \/ messageLog[n].message = <<>>
        \/ messageLog[n].message[1] \notin {"!", "$"}

\* C5: once retrain() has been called and the worker has drained the queue,
\* the word table and the transition counts equal those of a fresh model
\* that ingested the logged messages not flagged as commands, each once
\* (no random discard), whatever was queued when retrain() was called.
C5_RetrainRebuildsFromLog ==
    (/\ calls.retrain > 0
     /\ rt.pc = "idle"
     /\ queue = <<>>
     /\ worker.pc = "pop"
     /\ hist.rtClean
     /\ FlagCoversPrefixes) =>
        LET e == IngestAll(initialise_model(MarkovModel), NotFlagged(messageLog))
        IN  /\ markov.table = e.table
            /\ markov.wordList = e.wordList

\* C6: no key of the word-to-index map maps to index 0 or 1, and no word
\* with non-empty text occupies two positions of the word table.
C6_WordIndexUnique ==
    /\ \A key \in DOMAIN markov.wordIndices :
          markov.wordIndices[key] \notin {IDX_START_MARKER, IDX_END_MARKER}
    /\ \A m, n \in 1 .. Len(markov.wordList) :
          (/\ m # n
           /\ markov.wordList[m].word # <<>>
           /\ markov.wordList[m].word = markov.wordList[n].word)
            => markov.wordList[m].flags # markov.wordList[n].flags

\* C8: after shutdown() the worker exits and shutdown() returns; by then
\* everything enqueued before the stop entry has been popped by the worker,
\* and nothing enqueued after it ever is.
C8_ShutdownDrains ==
    /\ [](hist.stopId > 0 => \A id \in hist.popped : id < hist.stopId)
    /\ [](worker.pc = "exited" => \A id \in 1 .. hist.stopId - 1 : id \in hist.popped)
    /\ ((sd = "join") ~> (sd = "returned"))

\* shutdown() has returned after the worker ingested a message, and a
\* message enqueued after the stop entry is still in the queue
C8_Witness ==
    /\ sd = "returned"
    /\ hist.applied # <<>>
    /\ queue # <<>>

(* ------------------------------------------------------------------ *)
(* properties of the database store                                    *)
(* ------------------------------------------------------------------ *)
\* C2: at every point of any number of sync() cycles, a kill of the process
\* between two steps included, the primary database file is absent or holds
\* a complete serialised Database that load() accepts.
C2_PrimaryFileLoadable ==
    primary.present => Database_deserialise(primary.data).ok

\* C3: when a call of load() has returned failure, the global Database and
\* the global Markov model are what they were before the call.
C3_FailedLoadChangesNothing ==
    (ld.pc = "done" /\ ld.result = "fail") =>
        /\ TheDatabase = ld.before.db
        /\ markov = ld.before.markov

\* the syncer threads that have been started and not ended with the process
RunningSyncers == {t \in Syncers : syn[t].pc # "off"}

\* a syncer runs only in a process in which a load() has succeeded
SyncerOnlyAfterLoad == RunningSyncers # {} => ld.oks > 0

\* C15: a background syncer exists only after some load() has succeeded, and
\* there is never more than one
C15_OneSyncer ==
    /\ SyncerOnlyAfterLoad
    /\ Cardinality(RunningSyncers) <= 1

\* thread t returns from a sync() in which a step failed: open (the only way
\* out of the open step), a write, or the rename (the shadow file stays)
FailedSyncReturns(t) ==
    /\ alive /\ alive'
    /\ syn'[t].pc \in {"off", "call"}
    /\ \/ syn[t].pc = "open"
       \/ syn[t].pc = "rename" /\ (syn[t].failed \/ shadow' = shadow)

\* C16: a sync() in which open, write or rename failed returns without
\* replacing the primary file, and the Database in memory is as it was
C16_FailedSyncChangesNothing ==
    [][\A t \in Threads :
          FailedSyncReturns(t) => (primary' = primary /\ TheDatabase' = TheDatabase)]_vars

\* the same for the failures sync() tests for, open and rename
FailedOpenOrRenameChangesNothing ==
    [][\A t \in Threads :
          (FailedSyncReturns(t) /\ ~syn[t].failed)
              => (primary' = primary /\ TheDatabase' = TheDatabase)]_vars

(* ------------------------------------------------------------------ *)
(* properties of the built-in commands                                 *)
(* ------------------------------------------------------------------ *)
\* the mask stored for a built-in command; no entry counts as the empty mask
StoredMask(i, cmd_str) ==
    IF cmd_str \in DOMAIN i.builtinCommandPermissions
    THEN i.builtinCommandPermissions[cmd_str] ELSE 0

\* the two masks have a bit in common
SharesBit(a, b) ==
    \E bit \in {1, 2, 4, 8, 16, 32, 64, 128} :
        (a \div bit) % 2 = 1 /\ (b \div bit) % 2 = 1

InsufficientPermissions == << <<"insufficient permissions">> >>

\* C9: run_builtin_command runs the handler of a built-in command if and only
\* if the caller's mask shares a bit with the mask stored for the command or
\* that mask is empty; on denial the interpreter state is unchanged and
\* exactly one "insufficient permissions" message is sent.
C9_HandlerRunsIffPermitted ==
    (icalls > 0 /\ is_builtin_command(last.cmd_str)) =>
        LET mask    == StoredMask(last.pre, last.cmd_str)
            allowed == mask = 0 \/ SharesBit(mask, last.user_perms)
        IN  /\ last.ran <=> allowed
            /\ ~allowed => /\ interpreter = last.pre
                           /\ last.out = InsufficientPermissions
            /\ allowed => last.out # InsufficientPermissions

\* a caller holding a permission bit was denied a command whose mask had been
\* set by chmod, after another command had been let through
C9_Witness ==
    /\ icalls = 3
    /\ is_builtin_command(last.cmd_str)
    /\ ~last.ran
    /\ last.user_perms = 1
    /\ StoredMask(last.pre, last.cmd_str) = 2
    /\ last.out = InsufficientPermissions
    /\ DOMAIN interpreter.commands # {}

\* C10: def NAME BODY with NAME defined leaves the registry unchanged and
\* replies that NAME is already defined; redef NAME BODY with NAME undefined
\* leaves it unchanged and replies that NAME does not exist; otherwise the
\* registry then maps NAME to a macro whose body is BODY.
C10_DefRedef ==
    (/\ icalls > 0
     /\ last.cmd_str \in {cmd_def, cmd_redef}
     /\ last.ran
     /\ last.name # <<>>
     /\ last.body # <<>>) =>
        LET existed == last.name \in DOMAIN last.pre.commands
        IN  IF last.cmd_str = cmd_def /\ existed
            THEN /\ interpreter.commands = last.pre.commands
                 /\ last.out = << <<"'", last.name, "' is already defined">> >>
            ELSE IF last.cmd_str = cmd_redef /\ ~existed
            THEN /\ interpreter.commands = last.pre.commands
                 /\ last.out = << <<"'", last.name, "' does not exist">> >>
            ELSE /\ last.name \in DOMAIN interpreter.commands
                 /\ join_words(interpreter.commands[last.name].code) = last.body
                 /\ \A n \in DOMAIN last.pre.commands \ {last.name} :
                       /\ n \in DOMAIN interpreter.commands
                       /\ interpreter.commands[n] = last.pre.commands[n]

\* a def was refused for a name that a redef had given a new body before
C10_Witness ==
    /\ icalls = 3
    /\ last.cmd_str = cmd_def
    /\ last.ran
    /\ last.name \in DOMAIN last.pre.commands
    /\ last.body = <<"2">>
    /\ join_words(interpreter.commands[last.name].code) = <<"b", " ", "c">>
    /\ last.out = << <<"'", last.name, "' is already defined">> >>

\* C11: a command line that names one of the seven built-in commands never runs
\* a user macro, whatever def, redef and undef have put into the registry; it
\* runs the built-in handler, unless chmod has set a permission mask for the
\* name that the caller does not meet
C11_BuiltinWins ==
    (disp.n > 0 /\ disp.cmd_str \in DispatchNames) =>
        /\ disp.macro = NoMacro
        /\ \/ disp.handler
           \/ disp.denied /\ interpreter.builtinCommandPermissions # <<>>

\* `show` was invoked and ran its handler while a macro named show is defined
C11_Witness ==
    /\ disp.n > 0
    /\ disp.cmd_str = cmd_show
    /\ disp.handler
    /\ cmd_show \in DOMAIN interpreter.commands
    /\ interpreter.builtinCommandPermissions = <<>>

(* ================================================================== *)
(* properties of the Twitch backend                                    *)
(* ================================================================== *)
\* a frame the backend accepts: well-formed, not from the bot or an ignored
\* user, and carrying a user id
Accepted ==
    /\ seen.n > 0
    /\ seen.user # TwitchUsername
    /\ seen.user \notin IgnoredUsers
    /\ "user-id" \in DOMAIN seen.tags /\ seen.tags["user-id"] # <<>>
    /\ seen.channel # <<>> /\ seen.channel[1] = "#"

\* C12: for an accepted PRIVMSG, command dispatch is attempted iff the channel
\* is not lurking, the message is queued for the Markov worker iff no command
\* ran, and exactly one log entry is appended, flagged as a command iff one ran
C12_DispatchQueueLog ==
    Accepted =>
        /\ seen.dispatched <=> ~JoinedChannels[Tail(seen.channel)].lurk
        /\ (seen.queued = 1) <=> ~seen.ran_cmd
        /\ seen.queued \in {0, 1}
        /\ seen.logged = 1
        /\ seen.command <=> seen.ran_cmd

\* an accepted frame in a channel that is not lurking ran a command, and one
\* was queued before it
C12_Witness ==
    /\ Accepted
    /\ seen.ran_cmd
    /\ seen.queued = 0
    /\ Len(queue) = 1
    /\ Len(messageLog) = 2

\* C13: in every channel, the record stored under a user id carries that id
C13_UserIdIsKey ==
    \A c \in DOMAIN twitchChannels :
        \A u \in DOMAIN twitchChannels[c].knownUsers :
            twitchChannels[c].knownUsers[u].id = u

\* two users are known in one channel, one of them seen under a display name
C13_Witness ==
    \E c \in DOMAIN twitchChannels :
        /\ Cardinality(DOMAIN twitchChannels[c].knownUsers) = 2
        /\ \E u \in DOMAIN twitchChannels[c].knownUsers :
               twitchChannels[c].knownUsers[u].displayname = "Al"

\* the codepoints of a text that are not spaces, in order
RECURSIVE NoSpaces(_)
NoSpaces(cps) ==
    IF cps = <<>> THEN <<>>
    ELSE (IF Head(cps) = " " THEN <<>> ELSE <<Head(cps)>>) \o NoSpaces(Tail(cps))

RECURSIVE Flatten(_)
Flatten(lines) == IF lines = <<>> THEN <<>> ELSE Head(lines) \o Flatten(Tail(lines))

\* C17: a message of more than LIMIT codepoints is sent as lines of at most
\* LIMIT codepoints each, and the lines in order carry every codepoint of the
\* trimmed message that is not a space, once
C17_FragmentsReproduce ==
    (call.fn = "sendMessage" /\ call.done /\ Len(trim(call.msg)) > LIMIT) =>
        /\ call.out.returns
        /\ \A i \in DOMAIN call.out.lines : Len(call.out.lines[i]) <= LIMIT
        /\ NoSpaces(Flatten(call.out.lines)) = NoSpaces(trim(call.msg))

(* ================================================================== *)
(* serialise / deserialise round trips                                 *)
(* ================================================================== *)
TAG_MARKOV_DB          == 3
TAG_MARKOV_WORD_LIST   == 4
TAG_MARKOV_WORD        == 5
TAG_MARKOV_STORED_WORD == 6

Decoded(value, rest) == [ok |-> TRUE, value |-> value, rest |-> rest]

\* Word::serialise, Word::deserialise
Word_serialise(w) ==
    << Cell("tag", TAG_MARKOV_WORD), Cell("u64", w.index), Cell("u64", w.frequency) >>

Word_deserialise(buf) ==
    IF Len(buf) < 1 \/ buf[1] # Cell("tag", TAG_MARKOV_WORD) THEN Undecoded("type tag mismatch")
    ELSE IF Len(buf) < 2 \/ buf[2].t # "u64" THEN Undecoded("index")
    ELSE IF Len(buf) < 3 \/ buf[3].t # "u64" THEN Undecoded("frequency")
    ELSE Decoded(Word(buf[2].v, buf[3].v), drop(buf, 3))

\* DBWord::serialise, DBWord::deserialise
DBWord_serialise(w) ==
    << Cell("tag", TAG_MARKOV_STORED_WORD), Cell("str", w.word), Cell("u64", w.flags) >>

DBWord_deserialise(buf) ==
    IF Len(buf) < 1 \/ buf[1] # Cell("tag", TAG_MARKOV_STORED_WORD)
    THEN Undecoded("type tag mismatch")
    ELSE IF Len(buf) < 2 \/ buf[2].t # "str" THEN Undecoded("word")
    ELSE IF Len(buf) < 3 \/ buf[3].t # "u64" THEN Undecoded("flags")
    ELSE Decoded(DBWord(buf[2].v, buf[3].v), drop(buf, 3))

\* Writer::write and Reader::read of a vector: the count, then the elements
RECURSIVE write_all(_, _)
write_all(Ser(_), xs) == IF xs = <<>> THEN <<>> ELSE Ser(Head(xs)) \o write_all(Ser, Tail(xs))
write_vector(Ser(_), xs) == <<Cell("u64", Len(xs))>> \o write_all(Ser, xs)

RECURSIVE read_n(_, _, _, _)
read_n(De(_), buf, n, acc) ==
    IF n = 0 THEN Decoded(acc, buf)
    ELSE LET e == De(buf)
         IN  IF ~e.ok THEN e ELSE read_n(De, e.rest, n - 1, Append(acc, e.value))
read_vector(De(_), buf) ==
    IF Len(buf) < 1 \/ buf[1].t # "u64" THEN Undecoded("vector size")
    ELSE read_n(De, drop(buf, 1), buf[1].v, <<>>)

\* WordList::serialise, WordList::deserialise
WordList_serialise(wl) ==
    << Cell("tag", TAG_MARKOV_WORD_LIST), Cell("u64", wl.totalFrequency) >>
        \o write_vector(Word_serialise, wl.words)
        \o << Cell("map", wl.globalIndexMap) >>

WordList_deserialise(buf) ==
    IF Len(buf) < 1 \/ buf[1] # Cell("tag", TAG_MARKOV_WORD_LIST)
    THEN Undecoded("type tag mismatch")
    ELSE IF Len(buf) < 2 \/ buf[2].t # "u64" THEN Undecoded("totalFrequency")
    ELSE LET ws == read_vector(Word_deserialise, drop(buf, 2))
         IN  IF ~ws.ok THEN ws
             ELSE IF Len(ws.rest) < 1 \/ ws.rest[1].t # "map" THEN Undecoded("globalIndexMap")
             ELSE Decoded([totalFrequency |-> buf[2].v, words |-> ws.value,
                           globalIndexMap |-> ws.rest[1].v], drop(ws.rest, 1))

\* MarkovDB::serialise of a model: the table and the word list
MarkovModel_serialise(model) ==
    << Cell("tag", TAG_MARKOV_DB), Cell("map", model.table) >>
        \o write_vector(DBWord_serialise, model.wordList)

\* MarkovDB::deserialise: the model it leaves in theMarkovModel
MarkovModel_deserialise(buf) ==
    IF Len(buf) < 1 \/ buf[1] # Cell("tag", TAG_MARKOV_DB) THEN Undecoded("type tag mismatch")
    ELSE IF Len(buf) < 2 \/ buf[2].t # "map" THEN Undecoded("table")
    ELSE LET wl == read_vector(DBWord_deserialise, drop(buf, 2))
         IN  IF ~wl.ok THEN wl
             ELSE Decoded(deserialise_model([table |-> buf[2].v, wordList |-> wl.value]),
                          wl.rest)

\* the leaf types whose shared instance exists: the static initialisers of
\* the built-in function table call every one of the five getters
LeafNames == {"void", "bool", "char", "double", "int"}
StaticInitCache == LeafNames
NullType == [t |-> "null"]

\* Type::serialise
RECURSIVE Type_serialise(_)
Type_serialise(ty) ==
    <<Cell("u8", ty.t)>> \o
    ( IF ty.t = "list" THEN Type_serialise(ty.elm)
      ELSE IF ty.t = "map" THEN Type_serialise(ty.key) \o Type_serialise(ty.elm)
      ELSE IF ty.t = "fn"
      THEN Type_serialise(ty.ret) \o <<Cell("u64", Len(ty.args))>>
               \o write_all(Type_serialise, ty.args)
      ELSE <<>> )

\* Type::deserialise; a leaf comes back as the shared instance of the cache
RECURSIVE Type_deserialise(_, _)
Type_deserialise(buf, cache) ==
    LET De(b) == Type_deserialise(b, cache)
    IN  IF Len(buf) < 1 \/ buf[1].t # "u8" THEN Undecoded("no type")
        ELSE IF buf[1].v \in LeafNames
        THEN Decoded(IF buf[1].v \in cache THEN [t |-> buf[1].v] ELSE NullType, drop(buf, 1))
        ELSE IF buf[1].v = "list"
        THEN LET e == De(drop(buf, 1))
             IN  IF ~e.ok THEN e ELSE Decoded(get_list(e.value), e.rest)
        ELSE IF buf[1].v = "fn"
        THEN LET ret == De(drop(buf, 1))
             IN  IF ~ret.ok THEN ret
                 ELSE LET args == read_vector(De, ret.rest)
                      IN  IF ~args.ok THEN args
                          ELSE Decoded(get_function(ret.value, args.value), args.rest)
        ELSE IF buf[1].v = "map"
        THEN LET k == De(drop(buf, 1))
             IN  IF ~k.ok THEN k
                 ELSE LET v == De(k.rest)
                      IN  IF ~v.ok THEN v ELSE Decoded(get_map(k.value, v.value), v.rest)
        ELSE Undecoded("invalid type")

\* the values a running bot holds of each persisted entity
LeafTypes == {T_VOID, T_BOOLEAN, T_CHAR, T_DOUBLE, T_INTEGER}
Types1 ==
    LeafTypes \cup {get_list(e) : e \in LeafTypes}
              \cup {get_map(k, e) : k \in LeafTypes, e \in LeafTypes}
Types ==
    Types1 \cup {get_list(get_list(e)) : e \in LeafTypes}
           \cup {get_map(T_INTEGER, get_list(e)) : e \in LeafTypes}
           \cup {get_function(r, a) : r \in {T_VOID, T_INTEGER},
                                      a \in {<<>>, <<T_INTEGER>>, <<get_string, T_DOUBLE>>}}

Databases ==
    {[Database_create(t) EXCEPT !.twitchData.knownTwitchUsers = n,
                                !.twitchData.knownTwitchIdMappings = n] :
        t \in Timestamps, n \in 0 .. MaxUsers}

LogEntries == {[message |-> inp.msg, emotePositions |-> inp.emotes] : inp \in ChatInputs}
Logs == {<<>>} \cup {<<a>> : a \in LogEntries} \cup {<<a, b>> : a \in LogEntries, b \in LogEntries}
Models == {IngestAll(initialise_model(MarkovModel), log) : log \in Logs}
WordLists == UNION {{m.table[h] : h \in DOMAIN m.table} : m \in Models}
Words == UNION {{wl.words[i] : i \in DOMAIN wl.words} : wl \in WordLists}
DBWords == UNION {{m.wordList[i] : i \in DOMAIN m.wordList} : m \in Models}

\* deserialise(serialise(x)) of one entity; a Database is written at time now
RoundTrip(entity, x, now) ==
    CASE entity = "Database"    ->
            LET r == Database_deserialise(Database_serialise(x, now))
            IN  IF r.ok THEN Decoded(r.db, <<>>) ELSE r
      [] entity = "TwitchDB"    -> TwitchDB_deserialise(TwitchDB_serialise(x))
      [] entity = "Word"        -> Word_deserialise(Word_serialise(x))
      [] entity = "WordList"    -> WordList_deserialise(WordList_serialise(x))
      [] entity = "DBWord"      -> DBWord_deserialise(DBWord_serialise(x))
      [] entity = "MarkovModel" -> MarkovModel_deserialise(MarkovModel_serialise(x))
      [] entity = "Type"        -> Type_deserialise(Type_serialise(x), StaticInitCache)

RoundTripCall(entity, x, now) ==
    [fn |-> "roundtrip", entity |-> entity, x |-> x, now |-> now, done |-> FALSE]

InitRoundTripCall ==
    call \in {RoundTripCall("Database", x, now) : x \in Databases, now \in Timestamps}
        \cup {RoundTripCall("TwitchDB", x.twitchData, 0) : x \in Databases}
        \cup {RoundTripCall("Word", x, 0) : x \in Words}
        \cup {RoundTripCall("WordList", x, 0) : x \in WordLists}
        \cup {RoundTripCall("DBWord", x, 0) : x \in DBWords}
        \cup {RoundTripCall("MarkovModel", x, 0) : x \in Models}
        \cup {RoundTripCall("Type", x, 0) : x \in Types}

InitRoundTrip ==
    InitMarkov /\ InitDatabase /\ primary = NoFile /\ InitInterp /\ InitTwitch
        /\ InitRoundTripCall

\* the entity is serialised and read back
call_roundtrip ==
    /\ call.fn = "roundtrip" /\ ~call.done
    /\ call' = [call EXCEPT !.done = TRUE] @@
               [out |-> RoundTrip(call.entity, call.x, call.now)]
    /\ UNCHANGED << interpreter, last, icalls, disp >>
    /\ UNCHANGED << mvars, dbvars, tvars >>

NextRoundTrip == call_roundtrip

SpecRoundTrip == InitRoundTrip /\ [][NextRoundTrip]_vars

RoundTripDone == call.fn = "roundtrip" /\ call.done
RoundTripEqual == call.out.ok /\ call.out.value = call.x

\* C14: for every value of every persisted entity, reading back what
\* serialise wrote succeeds and gives an equal value
C14_RoundTrip == RoundTripDone => RoundTripEqual

\* the entities whose every value comes back equal
RoundTripOfParts ==
    (RoundTripDone /\ call.entity \in {"TwitchDB", "Word", "WordList", "DBWord", "Type"})
        => RoundTripEqual

\* a Database comes back equal in every field when it is written at the time
\* its timestamp field holds
DatabaseButTimestamp ==
    (RoundTripDone /\ call.entity = "Database") =>
        /\ call.out.ok
        /\ call.out.value = [call.x EXCEPT !.timestamp = call.now]

\* a model without emote words comes back equal
ModelWithoutEmotes ==
    (RoundTripDone /\ call.entity = "MarkovModel"
        /\ \A i \in DOMAIN call.x.wordList : call.x.wordList[i].flags # WORD_FLAG_EMOTE)
        => RoundTripEqual

(* ================================================================== *)
(* interp/type.cpp: cast distances, and overload resolution            *)
(* ================================================================== *)
is_void(ty)     == ty.t = "void"
is_integer(ty)  == ty.t = "int"
is_double(ty)   == ty.t = "double"
is_list(ty)     == ty.t = "list"
is_map(ty)      == ty.t = "map"
is_function(ty) == ty.t = "fn"

\* Type::is_same
RECURSIVE is_same(_, _)
is_same(a, b) ==
    IF is_list(a) /\ is_list(b) THEN is_same(a.elm, b.elm)
    ELSE IF is_map(a) /\ is_map(b) THEN is_same(a.elm, b.elm) /\ is_same(a.key, b.key)
    ELSE IF is_function(a) /\ is_function(b)
    THEN /\ is_same(a.ret, b.ret)
         /\ Len(a.args) = Len(b.args)
         /\ \A i \in DOMAIN a.args : is_same(a.args[i], b.args[i])
    ELSE a.t = b.t

\* a variant of get_cast_dist that charges a cast to map[void, void] like a
\* cast to map[K, void]
get_cast_dist_flat(a, other) ==
    IF is_same(a, other) THEN 0
    ELSE IF is_integer(a) /\ is_double(other) THEN 1
    ELSE IF is_list(a) /\ is_list(other)
    THEN IF is_void(other.elm) THEN 2 ELSE -1
    ELSE IF is_map(a) /\ is_map(other) /\ (is_void(other.elm) \/ is_void(other.key))
    THEN 2
    ELSE -1

\* Type::get_cast_dist
get_cast_dist(a, other) ==
    IF is_same(a, other) THEN 0
    ELSE IF is_integer(a) /\ is_double(other) THEN 1
    ELSE IF is_list(a) /\ is_list(other)
    THEN IF is_void(other.elm) THEN 2 ELSE -1
    ELSE IF is_map(a) /\ is_map(other)
    THEN IF is_same(a.key, other.key) /\ is_void(other.elm) THEN 2
         ELSE IF is_same(a.elm, other.elm) /\ is_void(other.key) THEN 2
         ELSE IF is_void(other.key) /\ is_void(other.elm) THEN 3
         ELSE -1
    ELSE -1

InitCastDist ==
    InitMarkov /\ InitDatabase /\ primary = NoFile /\ InitInterp /\ InitTwitch
        /\ call \in {[fn |-> "get_cast_dist", a |-> a, b |-> b, done |-> FALSE] :
                        a \in Types, b \in Types}

\* the interpreter asks for the cast distance of two types
call_get_cast_dist ==
    /\ call.fn = "get_cast_dist" /\ ~call.done
    /\ call' = [call EXCEPT !.done = TRUE] @@ [out |-> get_cast_dist(call.a, call.b)]
    /\ UNCHANGED << interpreter, last, icalls, disp >>
    /\ UNCHANGED << mvars, dbvars, tvars >>

NextCastDist == call_get_cast_dist

SpecCastDist == InitCastDist /\ [][NextCastDist]_vars

\* the candidates of an overload set, by the types of their parameters, and
\* the types of the arguments of a call
MaxCandidates == 3
ArgPool  == {T_INTEGER, T_DOUBLE, get_list(T_INTEGER), get_list(T_VOID)}
ArgPool2 == {T_INTEGER, T_DOUBLE}
Signatures ==
    {<<>>} \cup {<<ty>> : ty \in ArgPool} \cup {<<ty, u>> : ty \in ArgPool2, u \in ArgPool2}
OverloadSets == UNION {[1 .. n -> Signatures] : n \in 1 .. MaxCandidates}

\* lines 311-317: the cost of a candidate, or -1 when an argument cannot be cast
RECURSIVE cand_cost(_, _, _, _)
cand_cost(arg_types, cand_args, i, cost) ==
    IF ~(i < Len(arg_types)) THEN cost
    ELSE LET k == get_cast_dist(arg_types[i + 1], cand_args[i + 1])
         IN  IF k = -1 THEN -1 ELSE cand_cost(arg_types, cand_args, i + 1, cost + k)

INT_MAX == 2147483647
NoBest == 0

\* a variant of the loop in which a candidate of equal cost replaces the best
RECURSIVE run_loop_last(_, _, _, _, _)
run_loop_last(functions, arg_types, n, score, best) ==
    IF n > Len(functions) THEN best
    ELSE LET cand_args == functions[n]
             cost == IF Len(arg_types) # Len(cand_args) THEN -1
                     ELSE cand_cost(arg_types, cand_args, 0, 0)
         IN  IF cost # -1 /\ cost <= score
             THEN run_loop_last(functions, arg_types, n + 1, cost, n)
             ELSE run_loop_last(functions, arg_types, n + 1, score, best)

\* lines 306-326: the loop over the candidates, in declaration order
RECURSIVE run_loop(_, _, _, _, _)
run_loop(functions, arg_types, n, score, best) ==
    IF n > Len(functions) THEN best
    ELSE LET cand_args == functions[n]
             cost == IF Len(arg_types) # Len(cand_args) THEN -1
                     ELSE cand_cost(arg_types, cand_args, 0, 0)
         IN  IF cost # -1 /\ cost < score
             THEN run_loop(functions, arg_types, n + 1, cost, n)
             ELSE run_loop(functions, arg_types, n + 1, score, best)

\* FunctionOverloadSet::run: the candidate that is invoked, NoBest when the
\* call returns no value
FunctionOverloadSet_run(functions, arg_types) ==
    run_loop(functions, arg_types, 1, INT_MAX, NoBest)

InitOverload ==
    InitMarkov /\ InitDatabase /\ primary = NoFile /\ InitInterp /\ InitTwitch
        /\ call \in {[fn |-> "run", functions |-> f, arg_types |-> a, done |-> FALSE] :
                        f \in OverloadSets, a \in Signatures}

\* a call of an overloaded function
call_run ==
    /\ call.fn = "run" /\ ~call.done
    /\ call' = [call EXCEPT !.done = TRUE] @@
               [out |-> FunctionOverloadSet_run(call.functions, call.arg_types)]
    /\ UNCHANGED << interpreter, last, icalls, disp >>
    /\ UNCHANGED << mvars, dbvars, tvars >>

NextOverload == call_run

SpecOverload == InitOverload /\ [][NextOverload]_vars

(* ------------------------------------------------------------------ *)
(* properties of the types                                             *)
(* ------------------------------------------------------------------ *)
\* the table of cast distances, read from top to bottom
CastTable(a, b) ==
    CASE a = b                                                        -> 0
      [] a # b /\ a = T_INTEGER /\ b = T_DOUBLE                       -> 1
      [] a # b /\ a.t = "list" /\ b = get_list(T_VOID)                -> 2
      [] a # b /\ a.t = "map" /\ b \in {get_map(a.key, T_VOID), get_map(T_VOID, a.elm)} -> 2
      [] a # b /\ a.t = "map" /\ b = get_map(T_VOID, T_VOID)
               /\ b \notin {get_map(a.key, T_VOID), get_map(T_VOID, a.elm)} -> 3
      [] OTHER                                                        -> -1

CastDistDone == call.fn = "get_cast_dist" /\ call.done

\* C19: the cast distance of a to b is 0 exactly when the two are the same
\* type, 1 from int to double, 2 from a list to list[void] and from a map to
\* the map with its key or its value replaced by void, 3 from a map to
\* map[void, void], and -1 in every other case
C19_CastDistTable ==
    CastDistDone =>
        /\ call.out = CastTable(call.a, call.b)
        /\ (call.out = 0) <=> is_same(call.a, call.b)
        /\ is_same(call.a, call.b) <=> (call.a = call.b)

\* a map with a key and a value that are not void was cast to map[void, void]
C19_Witness ==
    /\ CastDistDone
    /\ call.a = get_map(T_INTEGER, T_BOOLEAN)
    /\ call.b = get_map(T_VOID, T_VOID)
    /\ call.out = 3

\* the cost of a candidate by the table: the sum over the arguments, or -1
RECURSIVE SumDist(_, _)
SumDist(args, params) ==
    IF args = <<>> THEN 0
    ELSE LET d == CastTable(Head(args), Head(params))
             r == SumDist(Tail(args), Tail(params))
         IN  IF d = -1 \/ r = -1 THEN -1 ELSE d + r

Qualifies(c) ==
    /\ Len(call.functions[c]) = Len(call.arg_types)
    /\ SumDist(call.arg_types, call.functions[c]) # -1

Cost(c) == SumDist(call.arg_types, call.functions[c])

OverloadDone == call.fn = "run" /\ call.done

\* C18: the candidate invoked is the first declared among the candidates of
\* the call's arity, castable in every argument, whose summed cast distance
\* is least; when there is none, no candidate is invoked and no value returned
C18_BestCandidate ==
    OverloadDone =>
        /\ call.out \in {NoBest} \cup DOMAIN call.functions
        /\ \A c \in DOMAIN call.functions :
              (call.out = c) <=>
                  /\ Qualifies(c)
                  /\ \A d \in DOMAIN call.functions :
                         Qualifies(d) => (Cost(c) < Cost(d) \/ (Cost(c) = Cost(d) /\ c <= d))
        /\ (call.out = NoBest) <=> \A c \in DOMAIN call.functions : ~Qualifies(c)

\* two candidates tie at a cost above zero below a dearer one declared
\* first, and the first of the two is invoked
C18_Witness ==
    /\ OverloadDone
    /\ call.out = 2
    /\ Len(call.functions) = 3
    /\ Qualifies(1) /\ Qualifies(2) /\ Qualifies(3)
    /\ Cost(1) > Cost(2) /\ Cost(2) = Cost(3) /\ Cost(2) > 0

(* ================================================================== *)
(* interp/parser.cpp: expressions                                      *)
(* ================================================================== *)
\* lexer::Token: its type and its text, a sequence of characters
Token(type, str) == [type |-> type, str |-> str]
eof == Token("EndOfFile", <<>>)

\* State::peek, State::pop, State::empty, State::match on the tokens left
peek(st) == IF st = <<>> THEN eof ELSE Head(st)
pop(st) == IF st = <<>> THEN st ELSE Tail(st)
empty(st) == st = <<>>
match(st, t) ==
    IF st = <<>> \/ Head(st).type # t THEN [ok |-> FALSE, st |-> st]
    ELSE [ok |-> TRUE, st |-> pop(st)]

is_comparison_op(op) ==
    op \in {"EqualTo", "NotEqual", "LAngle", "LessThanEqual", "RAngle", "GreaterThanEqual"}

is_postfix_op(op) == op \in {"LSquare", "LParen", "DoublePlus", "DoubleMinus"}

is_assignment_op(op) ==
    op \in {"Equal", "PlusEquals", "MinusEquals", "TimesEquals", "DivideEquals",
            "RemainderEquals", "ShiftLeftEquals", "ShiftRightEquals", "BitwiseAndEquals",
            "BitwiseOrEquals", "ExponentEquals"}

is_right_associative(op) == op = "Caret"

\* a variant of get_binary_precedence that ranks every operator alike
get_binary_precedence_flat(op) ==
    IF op \in {"EndOfFile", "Identifier", "NumberLit", "RParen", "RSquare", "Colon", "Comma"}
    THEN -1 ELSE 1800

get_binary_precedence(op) ==
    CASE op = "Period" -> 8000
      [] op = "LParen" -> 3000
      [] op = "LSquare" -> 2800
      [] op = "Caret" -> 2600
      [] op = "Asterisk" -> 2400
      [] op = "Slash" -> 2200
      [] op = "Percent" -> 2000
      [] op \in {"Plus", "Minus"} -> 1800
      [] op \in {"ShiftLeft", "ShiftRight"} -> 1600
      [] op = "Ampersand" -> 1400
      [] op = "Pipe" -> 1000
      [] is_comparison_op(op) -> 800
      [] op = "LogicalAnd" -> 600
      [] op = "LogicalOr" -> 400
      [] is_assignment_op(op) -> 200
      [] op = "Question" -> 10
      [] op = "Pipeline" -> 1
      [] OTHER -> -1

\* Result<Expr*>: a tree and the tokens left, or an error
Ok(expr, st) == [ok |-> TRUE, expr |-> expr, st |-> st]
Err(msg, st) == [ok |-> FALSE, error |-> msg, st |-> st]

\* the nodes of ast.h
VarRef(name) == [node |-> "VarRef", name |-> name]
LitInteger(v) == [node |-> "LitInteger", value |-> v]
LitDouble(text) == [node |-> "LitDouble", text |-> text]
LitString(text) == [node |-> "LitString", text |-> text]
LitBoolean(v) == [node |-> "LitBoolean", value |-> v]
UnaryOp(op, e) == [node |-> "UnaryOp", op |-> op, expr |-> e]
BinaryOp(op, l, r) == [node |-> "BinaryOp", op |-> op, lhs |-> l, rhs |-> r]
AssignOp(op, l, r) == [node |-> "AssignOp", op |-> op, lhs |-> l, rhs |-> r]
TernaryOp(op, c, l, r) == [node |-> "TernaryOp", op |-> op, cond |-> c, lhs |-> l, rhs |-> r]
ComparisonOp(exprs, ops) == [node |-> "ComparisonOp", exprs |-> exprs, ops |-> ops]
FunctionCall(fn, args) == [node |-> "FunctionCall", fn |-> fn, args |-> args]
SubscriptOp(l, idx) == [node |-> "SubscriptOp", list |-> l, index |-> idx]
SliceOp(l, start, end) == [node |-> "SliceOp", list |-> l, start |-> start, end |-> end]
nullptr == [node |-> "nullptr"]

\* std::stoll on the digits of a literal, in the given base
DigitValue(ch) ==
    CASE ch = "0" -> 0 [] ch = "1" -> 1 [] ch = "2" -> 2 [] ch = "3" -> 3 [] ch = "4" -> 4
      [] ch = "5" -> 5 [] ch = "6" -> 6 [] ch = "7" -> 7 [] ch = "8" -> 8 [] ch = "9" -> 9
      [] ch \in {"a", "A"} -> 10 [] ch \in {"b", "B"} -> 11 [] ch \in {"c", "C"} -> 12
      [] ch \in {"d", "D"} -> 13 [] ch \in {"e", "E"} -> 14 [] ch \in {"f", "F"} -> 15
      [] OTHER -> 16
RECURSIVE stoll(_, _, _)
stoll(num, base, acc) ==
    IF num = <<>> \/ DigitValue(Head(num)) >= base THEN acc
    ELSE stoll(Tail(num), base, acc * base + DigitValue(Head(num)))

has(num, chars) == \E i \in DOMAIN num : num[i] \in chars
starts(num, a, bs) == Len(num) >= 2 /\ num[1] = a /\ num[2] \in bs

\* parseNumber; the text of a floating literal is kept as it is written
parseNumber(st) ==
    LET num0 == peek(st).str
        is_floating == has(num0, {"."}) \/ (~has(num0, {"x", "X"}) /\ has(num0, {"e", "E"}))
        bin == starts(num0, "0", {"b", "B"})
        hex == starts(num0, "0", {"x", "X"})
        num == IF bin \/ hex THEN drop(num0, 2) ELSE num0
        base == IF hex THEN 16 ELSE IF bin THEN 2 ELSE 10
    IN  IF is_floating THEN Ok(LitDouble(num), pop(st))
        ELSE Ok(LitInteger(stoll(num, base, 0)), pop(st))

\* parseString: the escapes of a string literal ("BS" is the backspace)
RECURSIVE unescape(_)
unescape(str) ==
    IF str = <<>> THEN <<>>
    ELSE IF Head(str) # "\\" THEN <<Head(str)>> \o unescape(Tail(str))
    ELSE IF Len(str) = 1 THEN <<"\\">>
    ELSE LET e == str[2]
             rest == unescape(Tail(Tail(str)))
         IN  CASE e = "n" -> <<"\n">> \o rest
               [] e = "b" -> <<"BS">> \o rest
               [] e = "r" -> <<"\r">> \o rest
               [] e = "t" -> <<"\t">> \o rest
               [] e \in {"\"", "\\"} -> <<e>> \o rest
               [] OTHER -> <<"\\", e>> \o rest

parseString(st) == Ok(LitString(unescape(peek(st).str)), pop(st))

\* parseBool
parseBool(st) == Ok(LitBoolean(peek(st).str = <<"t", "r", "u", "e">>), pop(st))

\* parseIdentifier
parseIdentifier(st) ==
    LET name == peek(st).str
        st1 == pop(st)
        nxt == peek(st1)
    IN  IF name # <<"$">> THEN Ok(VarRef(name), st1)
        ELSE IF nxt.type = "Identifier" THEN Ok(VarRef(name \o nxt.str), pop(st1))
        ELSE IF nxt.type = "NumberLit"
        THEN IF \E i \in DOMAIN nxt.str : DigitValue(nxt.str[i]) > 9
             THEN Err("invalid numeric literal after '$'", st1)
             ELSE Ok(VarRef(name \o nxt.str), pop(st1))
        ELSE Err("invalid token after '$'", st1)

RECURSIVE parseExprSt(_), parseUnary(_), parsePrimary(_), parseRhs(_, _, _),
          parseRhsLoop(_, _, _), parsePostfix(_, _, _), parseArgs(_, _),
          parseParenthesised(_)

\* parseParenthesised
parseParenthesised(st) ==
    LET inside == parseExprSt(pop(st))
        m == match(inside.st, "RParen")
    IN  IF ~m.ok THEN Err("expected ')'", m.st)
        ELSE [inside EXCEPT !.st = m.st]

\* parsePrimary
parsePrimary(st) ==
    LET t == peek(st).type
    IN  CASE t = "StringLit" -> parseString(st)
          [] t = "NumberLit" -> parseNumber(st)
          [] t = "BooleanLit" -> parseBool(st)
          [] t = "LParen" -> parseParenthesised(st)
          [] t \in {"Dollar", "Identifier"} -> parseIdentifier(st)
          [] t = "EndOfFile" -> Err("unexpected end of input", st)
          [] OTHER -> Err("unexpected token", st)

\* parseUnary
parseUnary(st) ==
    LET t == peek(st).type
    IN  IF t \in {"Exclamation", "Minus", "Plus", "Tilde"}
        THEN LET e == parseUnary(pop(st))
             IN  IF e.ok THEN Ok(UnaryOp(t, e.expr), e.st) ELSE e
        ELSE parsePrimary(st)

\* parsePostfix after '(' : the arguments up to the closing parenthesis
parseArgs(st, args) ==
    IF peek(st).type = "RParen" THEN Ok(args, st)
    ELSE LET a == parseExprSt(st)
             m == match(a.st, "Comma")
         IN  IF ~a.ok THEN a
             ELSE IF m.ok THEN parseArgs(m.st, Append(args, a.expr))
             ELSE IF peek(a.st).type = "RParen" THEN Ok(Append(args, a.expr), a.st)
             ELSE Err("expected ',' or ')'", a.st)

\* parsePostfix
parsePostfix(st, lhs, op) ==
    IF op = "LParen"
    THEN LET args == parseArgs(st, <<>>)
             m == match(args.st, "RParen")
         IN  IF ~args.ok THEN args
             ELSE IF ~m.ok THEN Err("expected ')'", m.st)
             ELSE Ok(FunctionCall(lhs, args.expr), m.st)
    ELSE IF op = "LSquare"
    THEN LET c == match(st, "Colon")
         IN  IF c.ok
             THEN LET r == match(c.st, "RSquare")
                  IN  IF r.ok THEN Ok(SliceOp(lhs, nullptr, nullptr), pop(r.st))
                      ELSE LET end == parseExprSt(c.st)
                               r2 == match(end.st, "RSquare")
                           IN  IF ~r2.ok THEN Err("expected ']'", r2.st)
                               ELSE IF ~end.ok THEN [end EXCEPT !.st = r2.st]
                               ELSE Ok(SliceOp(lhs, nullptr, end.expr), r2.st)
             ELSE LET idx == parseExprSt(st)
                      c2 == match(idx.st, "Colon")
                      r3 == match(c2.st, "RSquare")
                  IN  IF c2.ok
                      THEN IF r3.ok
                           THEN IF idx.ok THEN Ok(SliceOp(lhs, idx.expr, nullptr), r3.st)
                                ELSE [idx EXCEPT !.st = r3.st]
                           ELSE LET end == parseExprSt(c2.st)
                                    r4 == match(end.st, "RSquare")
                                IN  IF ~r4.ok THEN Err("expected ']'", r4.st)
                                    ELSE IF ~idx.ok THEN [idx EXCEPT !.st = r4.st]
                                    ELSE IF ~end.ok THEN [end EXCEPT !.st = r4.st]
                                    ELSE Ok(SliceOp(lhs, idx.expr, end.expr), r4.st)
                      ELSE IF r3.ok
                      THEN IF idx.ok THEN Ok(SubscriptOp(lhs, idx.expr), r3.st)
                           ELSE [idx EXCEPT !.st = r3.st]
                      ELSE Err("expected either ']' or ':'", idx.st)
    ELSE Err("", st)

\* parseRhs, one turn of its loop; a turn that fails ends the parse with the
\* error, as every later turn keeps it
parseRhsLoop(st, lhs, prio) ==
    LET oper == peek(st)
        prec == get_binary_precedence(oper.type)
        st1  == pop(st)
        rhs0 == parseUnary(st1)
        next == get_binary_precedence(peek(rhs0.st).type)
        rhs  == IF next > prec \/ is_right_associative(peek(rhs0.st).type)
                THEN parseRhs(rhs0.st, rhs0, prec + 1) ELSE rhs0
    IN  IF prec < prio /\ ~is_right_associative(oper.type) THEN Ok(lhs, st)
        ELSE IF is_postfix_op(oper.type)
        THEN LET p == parsePostfix(st1, lhs, oper.type)
             IN  IF p.ok THEN parseRhsLoop(p.st, p.expr, prio) ELSE p
        ELSE IF ~rhs0.ok THEN rhs0
        ELSE IF ~rhs.ok THEN rhs
        ELSE IF is_assignment_op(oper.type)
        THEN parseRhsLoop(rhs.st, AssignOp(oper.type, lhs, rhs.expr), prio)
        ELSE IF oper.type = "Question"
        THEN LET m == match(rhs.st, "Colon")
                 e == parseExprSt(m.st)
             IN  IF ~m.ok THEN Err("expected ':' after '?'", m.st)
                 ELSE IF ~e.ok THEN e
                 ELSE parseRhsLoop(e.st, TernaryOp(oper.type, lhs, rhs.expr, e.expr), prio)
        ELSE IF is_comparison_op(oper.type)
        THEN IF lhs.node = "ComparisonOp"
             THEN parseRhsLoop(rhs.st,
                      ComparisonOp(Append(lhs.exprs, rhs.expr), Append(lhs.ops, oper.type)),
                      prio)
             ELSE parseRhsLoop(rhs.st, ComparisonOp(<<lhs, rhs.expr>>, <<oper.type>>), prio)
        ELSE parseRhsLoop(rhs.st, BinaryOp(oper.type, lhs, rhs.expr), prio)

\* parseRhs
parseRhs(st, lhs, prio) ==
    IF ~lhs.ok THEN lhs
    ELSE IF empty(st) \/ prio = -1 THEN lhs
    ELSE parseRhsLoop(st, lhs.expr, prio)

\* parseExpr(State&)
parseExprSt(st) ==
    LET lhs == parseUnary(st)
    IN  IF ~lhs.ok THEN lhs ELSE parseRhs(lhs.st, lhs, 0)

\* parseStmt
parseStmt(st) == parseExprSt(st)

\* parseExpr(str_view) on the tokens of the source: the tree, or nullptr
parseExpr(tokens) ==
    LET result == parseStmt(tokens)
    IN  IF result.ok THEN result.expr ELSE nullptr

\* the operators of get_binary_precedence that stand between two operands,
\* with their text
OperatorText ==
    [Period |-> <<".">>, Caret |-> <<"^">>, Asterisk |-> <<"*">>, Slash |-> <<"/">>,
     Percent |-> <<"%">>, Plus |-> <<"+">>, Minus |-> <<"-">>,
     ShiftLeft |-> <<"<", "<">>, ShiftRight |-> <<">", ">">>,
     Ampersand |-> <<"&">>, Pipe |-> <<"|">>,
     EqualTo |-> <<"=", "=">>, NotEqual |-> <<"!", "=">>, LAngle |-> <<"<">>,
     LessThanEqual |-> <<"<", "=">>, RAngle |-> <<">">>, GreaterThanEqual |-> <<">", "=">>,
     LogicalAnd |-> <<"&", "&">>, LogicalOr |-> <<"|", "|">>,
     Equal |-> <<"=">>, PlusEquals |-> <<"+", "=">>, MinusEquals |-> <<"-", "=">>,
     TimesEquals |-> <<"*", "=">>, DivideEquals |-> <<"/", "=">>,
     RemainderEquals |-> <<"%", "=">>, ShiftLeftEquals |-> <<"<", "<", "=">>,
     ShiftRightEquals |-> <<">", ">", "=">>, BitwiseAndEquals |-> <<"&", "=">>,
     BitwiseOrEquals |-> <<"|", "=">>, ExponentEquals |-> <<"^", "=">>,
     Question |-> <<"?">>, Pipeline |-> <<"|", ">">>]
InfixOperators == DOMAIN OperatorText

Ident(name) == Token("Identifier", <<name>>)
Number(digits) == Token("NumberLit", digits)
Op(type) == Token(type, OperatorText[type])
Punct(type, ch) == Token(type, <<ch>>)

\* the tokens of `a op1 b op2 c`
Triple(op1, op2) == << Ident("a"), Op(op1), Ident("b"), Op(op2), Ident("c") >>

\* the tokens of a run of comparisons a op1 b op2 c ..., and of (a op1 b) op2 c
ComparisonOperators ==
    {"EqualTo", "NotEqual", "LAngle", "LessThanEqual", "RAngle", "GreaterThanEqual"}
OperandNames == <<"a", "b", "c", "d">>
RECURSIVE ChainFrom(_, _)
ChainFrom(ops, i) ==
    IF i > Len(ops) THEN <<>>
    ELSE << Op(ops[i]), Ident(OperandNames[i + 1]) >> \o ChainFrom(ops, i + 1)
ChainTokens(ops) == << Ident("a") >> \o ChainFrom(ops, 1)
ParenthesisedLeft(op1, op2) ==
    << Punct("LParen", "("), Ident("a"), Op(op1), Ident("b"), Punct("RParen", ")"),
       Op(op2), Ident("c") >>
ChainOps == UNION {[1 .. n -> ComparisonOperators] : n \in 1 .. 3}

\* the tokens of the five bracket forms a[i], a[:], a[i:], a[:j], a[i:j], the
\* node of each, and the operators that may follow the bracket
BracketForms == {"[i]", "[:]", "[i:]", "[:j]", "[i:j]"}
BracketTokens(form) ==
    << Ident("a"), Punct("LSquare", "[") >>
    \o (IF form \in {"[i]", "[i:]", "[i:j]"} THEN << Ident("i") >> ELSE <<>>)
    \o (IF form # "[i]" THEN << Punct("Colon", ":") >> ELSE <<>>)
    \o (IF form \in {"[:j]", "[i:j]"} THEN << Ident("j") >> ELSE <<>>)
    \o << Punct("RSquare", "]") >>
BracketNode(form) ==
    IF form = "[i]" THEN SubscriptOp(VarRef(<<"a">>), VarRef(<<"i">>))
    ELSE SliceOp(VarRef(<<"a">>),
                 IF form \in {"[i:]", "[i:j]"} THEN VarRef(<<"i">>) ELSE nullptr,
                 IF form \in {"[:j]", "[i:j]"} THEN VarRef(<<"j">>) ELSE nullptr)
FollowingOperators ==
    {"Plus", "Minus", "Asterisk", "Slash", "Percent", "Ampersand", "Pipe",
     "LogicalAnd", "LogicalOr"}
BracketTails == {<<>>} \cup {<< Op(op), Ident("z") >> : op \in FollowingOperators}

\* the sources handed to the parser: every a op1 b op2 c, runs of up to four
\* operands joined by comparisons, comparisons of a parenthesised comparison,
\* and expressions with literals, calls, subscripts, parentheses, a
\* conditional and a sign
ParseInputs ==
    {Triple(op1, op2) : op1 \in InfixOperators, op2 \in InfixOperators}
    \cup {ChainTokens(ops) : ops \in ChainOps}
    \cup {ParenthesisedLeft(op1, op2) : op1 \in ComparisonOperators,
                                        op2 \in ComparisonOperators}
    \cup {BracketTokens(form) \o tail : form \in BracketForms, tail \in BracketTails}
    \cup {<< Number(<<"1">>), Op("Plus"), Number(<<"2">>), Op("Asterisk"), Number(<<"3">>) >>,
          << Ident("x"), Op("Pipeline"), Ident("f"), Op("Pipeline"), Ident("g") >>,
          << Ident("f"), Punct("LParen", "("), Ident("a"), Punct("Comma", ","), Ident("b"),
             Punct("RParen", ")"), Op("Plus"), Ident("c") >>,
          << Ident("a"), Punct("LSquare", "["), Ident("b"), Punct("RSquare", "]"),
             Op("Asterisk"), Ident("c") >>,
          << Ident("a"), Punct("LSquare", "["), Number(<<"0", "x", "1", "f">>),
             Punct("Colon", ":"), Punct("RSquare", "]") >>,
          << Punct("LParen", "("), Ident("a"), Op("Plus"), Ident("b"), Punct("RParen", ")"),
             Op("Asterisk"), Ident("c") >>,
          << Ident("a"), Op("Question"), Ident("b"), Punct("Colon", ":"), Ident("c"),
             Op("Plus"), Ident("d") >>,
          << Op("Minus"), Ident("a"), Op("Asterisk"), Punct("Dollar", "$"),
             Number(<<"1">>) >>,
          << Token("StringLit", <<"a", "\\", "n">>), Op("Plus"),
             Token("BooleanLit", <<"t", "r", "u", "e">>) >>}

InitParse ==
    InitMarkov /\ InitDatabase /\ primary = NoFile /\ InitInterp /\ InitTwitch
        /\ call \in {[fn |-> "parseExpr", tokens |-> t, done |-> FALSE] : t \in ParseInputs}

\* the interpreter parses an expression
call_parseExpr ==
    /\ call.fn = "parseExpr" /\ ~call.done
    /\ call' = [call EXCEPT !.done = TRUE] @@ [out |-> parseExpr(call.tokens)]
    /\ UNCHANGED << interpreter, last, icalls, disp >>
    /\ UNCHANGED << mvars, dbvars, tvars >>

NextParse == call_parseExpr

SpecParse == InitParse /\ [][NextParse]_vars

(* ------------------------------------------------------------------ *)
(* properties of the expression parser                                 *)
(* ------------------------------------------------------------------ *)
ParseDone == call.fn = "parseExpr" /\ call.done

\* the operators between two operands, from the one that binds tightest
Levels ==
    << {"Period"}, {"Caret"}, {"Asterisk"}, {"Slash"}, {"Percent"}, {"Plus", "Minus"},
       {"ShiftLeft", "ShiftRight"}, {"Ampersand"}, {"Pipe"},
       {"EqualTo", "NotEqual", "LAngle", "LessThanEqual", "RAngle", "GreaterThanEqual"},
       {"LogicalAnd"}, {"LogicalOr"},
       {"Equal", "PlusEquals", "MinusEquals", "TimesEquals", "DivideEquals",
        "RemainderEquals", "ShiftLeftEquals", "ShiftRightEquals", "BitwiseAndEquals",
        "BitwiseOrEquals", "ExponentEquals"},
       {"Pipeline"} >>
BinaryOperators == UNION {Levels[i] : i \in DOMAIN Levels}
Level(op) == CHOOSE i \in DOMAIN Levels : op \in Levels[i]
Higher(op2, op1) == Level(op2) < Level(op1)
LeftAssociative(op) == op # "Caret"
Comparison(op) == Level(op) = 10

\* the node of `l op r`
Node(op, l, r) ==
    IF Comparison(op) THEN ComparisonOp(<<l, r>>, <<op>>)
    ELSE IF Level(op) = 13 THEN AssignOp(op, l, r)
    ELSE BinaryOp(op, l, r)

RightGrouped(op1, op2) == Node(op1, VarRef(<<"a">>), Node(op2, VarRef(<<"b">>), VarRef(<<"c">>)))
LeftGrouped(op1, op2)  == Node(op2, Node(op1, VarRef(<<"a">>), VarRef(<<"b">>)), VarRef(<<"c">>))
Chained(op1, op2) ==
    ComparisonOp(<<VarRef(<<"a">>), VarRef(<<"b">>), VarRef(<<"c">>)>>, <<op1, op2>>)

\* C20 as stated: a op1 b op2 c parses as a op1 (b op2 c) when op2 binds
\* tighter than op1, and as (a op1 b) op2 c otherwise when the operators are
\* left-associative
C20_Grouping ==
    \A op1 \in BinaryOperators, op2 \in BinaryOperators :
        (ParseDone /\ call.tokens = Triple(op1, op2)) =>
            IF Higher(op2, op1) THEN call.out = RightGrouped(op1, op2)
            ELSE (LeftAssociative(op1) /\ LeftAssociative(op2)) =>
                     call.out = LeftGrouped(op1, op2)

\* C20: a op1 b op2 c parses as a op1 (b op2 c) when op2 binds tighter than
\* op1; otherwise, for left-associative operators, as (a op1 b) op2 c unless
\* both are comparison operators, which make one comparison of a, b and c
C20_GroupingOrChain ==
    \A op1 \in BinaryOperators, op2 \in BinaryOperators :
        (ParseDone /\ call.tokens = Triple(op1, op2)) =>
            IF Higher(op2, op1) THEN call.out = RightGrouped(op1, op2)
            ELSE IF Comparison(op1) /\ Comparison(op2) THEN call.out = Chained(op1, op2)
            ELSE (LeftAssociative(op1) /\ LeftAssociative(op2)) =>
                     call.out = LeftGrouped(op1, op2)

C20_Witness ==
    /\ ParseDone
    /\ call.tokens = Triple("Plus", "Asterisk")
    /\ call.out = BinaryOp("Plus", VarRef(<<"a">>),
                           BinaryOp("Asterisk", VarRef(<<"b">>), VarRef(<<"c">>)))

\* the two examples: 1 + 2 * 3 and x |> f |> g
ParsedExamples ==
    ParseDone =>
        /\ call.tokens[1] = Number(<<"1">>) =>
              call.out = BinaryOp("Plus", LitInteger(1),
                                  BinaryOp("Asterisk", LitInteger(2), LitInteger(3)))
        /\ call.tokens[1] = Ident("x") =>
              call.out = BinaryOp("Pipeline",
                                  BinaryOp("Pipeline", VarRef(<<"x">>), VarRef(<<"f">>)),
                                  VarRef(<<"g">>))

(* ================================================================== *)
(* commands/lexer.cpp and commands/parser.cpp: the `**` operator       *)
(* ================================================================== *)
Digits == {"0", "1", "2", "3", "4", "5", "6", "7", "8", "9"}
LowerCase ==
    {"a", "b", "c", "d", "e", "f", "g", "h", "i", "j", "k", "l", "m",
     "n", "o", "p", "q", "r", "s", "t", "u", "v", "w", "x", "y", "z"}
is_digit(ch) == ch \in Digits
\* is_letter: of the capitals only 'A' is in 'A' .. 'A'
is_letter(ch) == ch \in LowerCase \cup {"A"}

\* the keywords of initKeywordMap
keywordMap ==
    { <<<<"f", "n">>, "Function">>, <<<<"i", "f">>, "If">>, <<<<"l", "e", "t">>, "Let">>,
      <<<<"e", "l", "s", "e">>, "Else">>, <<<<"w", "h", "i", "l", "e">>, "While">>,
      <<<<"r", "e", "t", "u", "r", "n">>, "Return">>, <<<<"f", "o", "r">>, "For">>,
      <<<<"t", "r", "u", "e">>, "BooleanLit">>, <<<<"f", "a", "l", "s", "e">>, "BooleanLit">> }

\* the operators of two and three characters, in the order they are tried
LongOperators ==
    << <<"ExponentEquals", <<"*", "*", "=">>>>, <<"ShiftLeftEquals", <<"<", "<", "=">>>>,
       <<"ShiftRightEquals", <<">", ">", "=">>>>, <<"LogicalAnd", <<"&", "&">>>>,
       <<"LogicalOr", <<"|", "|">>>>, <<"EqualTo", <<"=", "=">>>>,
       <<"NotEqual", <<"!", "=">>>>, <<"LessThanEqual", <<"<", "=">>>>,
       <<"GreaterThanEqual", <<">", "=">>>>, <<"ShiftLeft", <<"<", "<">>>>,
       <<"ShiftRight", <<">", ">">>>>, <<"Exponent", <<"*", "*">>>>,
       <<"Pipeline", <<"|", ">">>>>, <<"PlusEquals", <<"+", "=">>>>,
       <<"MinusEquals", <<"-", "=">>>>, <<"TimesEquals", <<"*", "=">>>>,
       <<"DivideEquals", <<"/", "=">>>>, <<"RemainderEquals", <<"%", "=">>>>,
       <<"BitwiseXorEquals", <<"^", "=">>>>, <<"BitwiseAndEquals", <<"&", "=">>>>,
       <<"BitwiseOrEquals", <<"|", "=">>>>, <<"RightArrow", <<"-", ">">>>> >>

\* the tokens of one character
single_char(ch) ==
    CASE ch = ";" -> "Semicolon" [] ch = "$" -> "Dollar" [] ch = ":" -> "Colon"
      [] ch = "|" -> "Pipe" [] ch = "&" -> "Ampersand" [] ch = "." -> "Period"
      [] ch = "*" -> "Asterisk" [] ch = "^" -> "Caret" [] ch = "!" -> "Exclamation"
      [] ch = "+" -> "Plus" [] ch = "," -> "Comma" [] ch = "-" -> "Minus"
      [] ch = "/" -> "Slash" [] ch = "(" -> "LParen" [] ch = ")" -> "RParen"
      [] ch = "[" -> "LSquare" [] ch = "]" -> "RSquare" [] ch = "{" -> "LBrace"
      [] ch = "}" -> "RBrace" [] ch = "<" -> "LAngle" [] ch = ">" -> "RAngle"
      [] ch = "=" -> "Equal" [] ch = "%" -> "Percent"
      [] OTHER -> "Invalid"

\* src.find(p) == 0
starts_with(src, p) == Len(src) >= Len(p) /\ take(src, Len(p)) = p

\* the length of the longest prefix of src whose characters are all in chars
RECURSIVE run_of(_, _)
run_of(src, chars) ==
    IF src = <<>> \/ Head(src) \notin chars THEN 0 ELSE 1 + run_of(Tail(src), chars)

skip_whitespace(src) == drop(src, run_of(src, {" ", "\t", "\n", "\r"}))

INVALID == Token("Invalid", <<>>)
Lexed(tok, rest) == [tok |-> tok, rest |-> rest]

\* lex_one_token, a number literal
lex_number(src, prevType) ==
    LET hex  == starts(src, "0", {"x", "X"})
        bin  == ~hex /\ starts(src, "0", {"b", "B"})
        tmp0 == IF hex \/ bin THEN drop(src, 2) ELSE src
        digs == IF hex THEN Digits \cup {"a", "b", "c", "d", "e", "f", "A", "B", "C", "D", "E", "F"}
                ELSE IF bin THEN {"0", "1"} ELSE Digits
        tmp1 == drop(tmp0, run_of(tmp0, digs))
        hadExp == tmp1 # <<>> /\ Head(tmp1) \in {"e", "E"}
        tmp2 == IF hadExp THEN drop(tmp1, 1 + run_of(Tail(tmp1), Digits)) ELSE tmp1
        didRead == Len(src) - Len(tmp2)
        post == drop(src, didRead)
        dot == post # <<>> /\ Head(post) = "."
        frac == IF dot /\ prevType # "Period" /\ Len(post) > 1 /\ is_digit(post[2])
                THEN 1 + run_of(Tail(post), Digits) ELSE 0
    IN  IF hadExp /\ (hex \/ bin) THEN Lexed(INVALID, src)
        ELSE IF dot /\ ((hex \/ bin) \/ hadExp) THEN Lexed(INVALID, src)
        ELSE Lexed(Token("NumberLit", take(src, didRead + frac)), drop(src, didRead + frac))

\* lex_one_token, a string literal: the characters up to the closing quote,
\* \" counting as two; a literal that is not closed is read past its end
RECURSIVE string_count(_)
string_count(tmp) ==
    IF tmp = <<>> \/ Head(tmp) = "\"" THEN 0
    ELSE IF Len(tmp) > 1 /\ tmp[1] = "\\" /\ tmp[2] = "\"" THEN 2 + string_count(drop(tmp, 2))
    ELSE 1 + string_count(Tail(tmp))
lex_string(src) ==
    LET count == string_count(Tail(src))
    IN  IF Len(src) = 1 \/ Len(src) < count + 2 THEN Lexed(INVALID, src)
        ELSE Lexed(Token("StringLit", take(Tail(src), count)), drop(src, count + 2))

\* lex_one_token, an identifier or a keyword
lex_identifier(src) ==
    LET identLength == 1 + run_of(Tail(src), Digits \cup LowerCase \cup {"A", "_"})
        text == take(src, identLength)
        kw == {k \in keywordMap : k[1] = text}
        type == IF kw = {} THEN "Identifier" ELSE (CHOOSE k \in kw : TRUE)[2]
    IN  Lexed(Token(type, text), drop(src, identLength))

RECURSIVE lex_operator(_, _)
lex_operator(src, i) ==
    IF i > Len(LongOperators) THEN Lexed(INVALID, src)
    ELSE IF starts_with(src, LongOperators[i][2])
    THEN Lexed(Token(LongOperators[i][1], LongOperators[i][2]),
               drop(src, Len(LongOperators[i][2])))
    ELSE lex_operator(src, i + 1)

\* lex_one_token
lex_one_token(src0, prevType) ==
    LET src == skip_whitespace(src0)
        op  == lex_operator(src, 1)
    IN  IF src = <<>> THEN Lexed(Token("EndOfFile", <<>>), src)
        ELSE IF op.tok.type # "Invalid" THEN op
        ELSE IF is_digit(Head(src)) THEN lex_number(src, prevType)
        ELSE IF Head(src) = "\"" THEN lex_string(src)
        ELSE IF Head(src) = "_" \/ is_letter(Head(src)) THEN lex_identifier(src)
        ELSE Lexed(Token(single_char(Head(src)), take(src, 1)), Tail(src))

\* lexString: the tokens up to the end of the source; the type of the token
\* before the first one is that of a default Token. A token that consumes
\* nothing (an invalid number or string) is lexed again and again by the
\* code; here the list ends with it
RECURSIVE lex_loop(_, _, _)
lex_loop(src, prevType, ret) ==
    LET l == lex_one_token(src, prevType)
    IN  IF l.tok.type = "EndOfFile" THEN ret
        ELSE IF Len(l.rest) = Len(src) THEN Append(ret, l.tok)
        ELSE lex_loop(l.rest, l.tok.type, Append(ret, l.tok))
lexString(src) == lex_loop(src, "Invalid", <<>>)

\* commands/parser.cpp: the precedence table of the command language
cmd_get_binary_precedence(op) ==
    CASE op = "Period" -> 8000
      [] op = "Exponent" -> 2600
      [] op = "Asterisk" -> 2400
      [] op = "Slash" -> 2200
      [] op = "Percent" -> 2000
      [] op \in {"Plus", "Minus"} -> 1800
      [] op \in {"ShiftLeft", "ShiftRight"} -> 1600
      [] op = "Ampersand" -> 1400
      [] op = "Caret" -> 1200
      [] op = "Pipe" -> 1000
      [] op \in {"EqualTo", "NotEqual", "LAngle", "RAngle", "LessThanEqual",
                 "GreaterThanEqual"} -> 800
      [] op = "LogicalAnd" -> 600
      [] op = "LogicalOr" -> 400
      [] op \in {"PlusEquals", "MinusEquals", "TimesEquals", "DivideEquals",
                 "RemainderEquals", "ShiftLeftEquals", "ShiftRightEquals",
                 "BitwiseAndEquals", "BitwiseOrEquals", "BitwiseXorEquals",
                 "ExponentEquals"} -> 200
      [] op = "Pipeline" -> 1
      [] OTHER -> -1

\* State of commands/parser.cpp: match tests the first token and leaves it
cmd_eof == Token("Invalid", <<>>)
cmd_peek(st) == IF st = <<>> THEN cmd_eof ELSE Head(st)
cmd_match(st, t) == st # <<>> /\ Head(st).type = t

\* parseNumber of commands/parser.cpp: std::stoll in base 10
cmd_parseNumber(st) ==
    LET num == cmd_peek(st).str
        is_floating == has(num, {"."}) \/ (~has(num, {"x", "X"}) /\ has(num, {"e", "E"}))
    IN  IF is_floating THEN Ok(LitDouble(num), pop(st))
        ELSE Ok(LitInteger(stoll(num, 10, 0)), pop(st))

RECURSIVE cmd_parseExpr(_), cmd_parseUnary(_), cmd_parsePrimary(_), cmd_parseRhs(_, _, _),
          cmd_parseRhsLoop(_, _, _), cmd_parseParenthesised(_)

\* parseParenthesised: the closing parenthesis is tested and not consumed
cmd_parseParenthesised(st) ==
    LET inside == cmd_parseExpr(pop(st))
    IN  IF ~cmd_match(inside.st, "RParen") THEN Err("expected ')'", inside.st)
        ELSE inside

\* parsePrimary; parseString answers "owo" as an error, and parseBool stops
\* on its assertion that the token is a number
cmd_parsePrimary(st) ==
    LET t == cmd_peek(st).type
    IN  CASE t = "StringLit" -> Err("owo", st)
          [] t = "NumberLit" -> cmd_parseNumber(st)
          [] t = "BooleanLit" -> Err("assertion failed", st)
          [] t = "LParen" -> cmd_parseParenthesised(st)
          [] OTHER -> Err("unexpected token", st)

\* parseUnary: a sign is matched and not consumed, so the call on the same
\* tokens never returns
cmd_parseUnary(st) ==
    IF cmd_match(st, "Exclamation") \/ cmd_match(st, "Minus") \/ cmd_match(st, "Plus")
    THEN Err("unbounded recursion", st)
    ELSE cmd_parsePrimary(st)

\* parseRhs, one turn of its loop
cmd_parseRhsLoop(st, lhs, prio) ==
    LET oper == cmd_peek(st)
        prec == cmd_get_binary_precedence(oper.type)
        rhs0 == cmd_parseUnary(pop(st))
        next == cmd_get_binary_precedence(cmd_peek(rhs0.st).type)
        rhs  == IF next > prec THEN cmd_parseRhs(rhs0.st, rhs0, prec + 1) ELSE rhs0
    IN  IF prec < prio THEN Ok(lhs, st)
        ELSE IF ~rhs0.ok THEN rhs0
        ELSE IF ~rhs.ok THEN rhs
        ELSE cmd_parseRhsLoop(rhs.st, BinaryOp(oper.type, lhs, rhs.expr), prio)

\* parseRhs
cmd_parseRhs(st, lhs, prio) ==
    IF ~lhs.ok THEN lhs
    ELSE IF empty(st) \/ prio = -1 THEN lhs
    ELSE cmd_parseRhsLoop(st, lhs.expr, prio)

\* parseExpr(State&)
cmd_parseExpr(st) ==
    LET lhs == cmd_parseUnary(st)
    IN  IF ~lhs.ok THEN lhs ELSE cmd_parseRhs(lhs.st, lhs, 0)

\* cmd::ast::parse: the tree of a source text, or nullptr
cmd_parse(src) ==
    LET result == cmd_parseExpr(lexString(src))
    IN  IF result.ok THEN result.expr ELSE nullptr

\* the sources parsed: x op1 y op2 z, written with and without spaces
SourceNumbers == {<<"1">>, <<"2">>, <<"3">>}
SourceOperators == {<<"*", "*">>, <<"*">>, <<"+">>, <<"^">>}
Spaced(x, op1, y, op2, z) == x \o <<" ">> \o op1 \o <<" ">> \o y \o <<" ">> \o op2 \o <<" ">> \o z
Sources ==
    {Spaced(x, op1, y, op2, z) : x \in SourceNumbers, y \in SourceNumbers,
                                 z \in SourceNumbers,
                                 op1 \in SourceOperators, op2 \in SourceOperators}
    \cup {x \o <<"*", "*">> \o y \o <<"*", "*">> \o z :
             x \in SourceNumbers, y \in SourceNumbers, z \in SourceNumbers}

InitCmdParse ==
    InitMarkov /\ InitDatabase /\ primary = NoFile /\ InitInterp /\ InitTwitch
        /\ call \in {[fn |-> "parse", src |-> src, done |-> FALSE] : src \in Sources}

\* a command's expression is parsed
call_cmd_parse ==
    /\ call.fn = "parse" /\ ~call.done
    /\ call' = [call EXCEPT !.done = TRUE]
                  @@ [tokens |-> lexString(call.src), out |-> cmd_parse(call.src)]
    /\ UNCHANGED << interpreter, last, icalls, disp >>
    /\ UNCHANGED << mvars, dbvars, tvars >>

NextCmdParse == call_cmd_parse

SpecCmdParse == InitCmdParse /\ [][NextCmdParse]_vars

\* the operands of a run of n - 1 comparisons
Operands(n) == [i \in 1 .. n |-> VarRef(<<OperandNames[i]>>)]

\* a run of operands joined by comparisons parses to one comparison node
\* with the operands and the operators in order
ChainsFold ==
    \A ops \in ChainOps :
        (ParseDone /\ call.tokens = ChainTokens(ops)) =>
            call.out = ComparisonOp(Operands(Len(ops) + 1), ops)

\* a comparison whose left operand is a parenthesised comparison keeps
\* that operand as a node of its own
ParenthesisedKept ==
    \A op1 \in ComparisonOperators, op2 \in ComparisonOperators :
        (ParseDone /\ call.tokens = ParenthesisedLeft(op1, op2)) =>
            call.out = ComparisonOp(<< ComparisonOp(Operands(2), <<op1>>),
                                       VarRef(<<"c">>) >>, <<op2>>)

\* C22: n operands joined by n - 1 comparisons parse to one comparison node
\* holding them in order, and a comparison whose left operand is
\* parenthesised is not merged into that operand's node
C22_ChainedComparison == ChainsFold /\ ParenthesisedKept

\* what the parser does with (a op1 b) op2 c: the same node as a op1 b op2 c
ParenthesisedMerged ==
    \A op1 \in ComparisonOperators, op2 \in ComparisonOperators :
        (ParseDone /\ call.tokens = ParenthesisedLeft(op1, op2)) =>
            call.out = ComparisonOp(Operands(3), <<op1, op2>>)

(* ------------------------------------------------------------------ *)
(* properties of the `**` operator                                     *)
(* ------------------------------------------------------------------ *)
CmdParseDone == call.fn = "parse" /\ call.done
Power == <<"*", "*">>
PowerSources(x, y, z) == {Spaced(x, Power, y, Power, z), x \o Power \o y \o Power \o z}
Lit(x) == LitInteger(stoll(x, 10, 0))

\* C21: x ** y ** z parses to the tree x ** (y ** z)
C21_ExponentRightAssociative ==
    \A x \in SourceNumbers, y \in SourceNumbers, z \in SourceNumbers :
        (CmdParseDone /\ call.src \in PowerSources(x, y, z)) =>
            call.out = BinaryOp("Exponent", Lit(x), BinaryOp("Exponent", Lit(y), Lit(z)))

\* what the command parser does: ** is one token, x ** y ** z groups to the left
ExponentGroupsLeft ==
    \A x \in SourceNumbers, y \in SourceNumbers, z \in SourceNumbers :
        (CmdParseDone /\ call.src \in PowerSources(x, y, z)) =>
            /\ call.tokens = << Number(x), Token("Exponent", Power), Number(y),
                                Token("Exponent", Power), Number(z) >>
            /\ call.out = BinaryOp("Exponent", BinaryOp("Exponent", Lit(x), Lit(y)), Lit(z))

\* ** binds tighter than * and + on either side
ExponentBindsTighter ==
    \A x \in SourceNumbers, y \in SourceNumbers, z \in SourceNumbers :
        CmdParseDone =>
            /\ call.src = Spaced(x, <<"*">>, y, Power, z) =>
                  call.out = BinaryOp("Asterisk", Lit(x), BinaryOp("Exponent", Lit(y), Lit(z)))
            /\ call.src = Spaced(x, Power, y, <<"+">>, z) =>
                  call.out = BinaryOp("Plus", BinaryOp("Exponent", Lit(x), Lit(y)), Lit(z))

\* in interp/parser.cpp the right-associative operator of precedence 2600 is ^
CaretRightAssociative ==
    (ParseDone /\ call.tokens = Triple("Caret", "Caret")) =>
        call.out = BinaryOp("Caret", VarRef(<<"a">>),
                            BinaryOp("Caret", VarRef(<<"b">>), VarRef(<<"c">>)))

(* ================================================================== *)
(* markov/markov.cpp: generate_one and generateMessage                 *)
(* ================================================================== *)
MaxSeed == 4        \* seed words handed to generateMessage

\* max_length of generateMessage, scaled down from 50
max_length == 3

\* a variant of take_last that takes the first n instead of the last n
take_first(sp, n) == SubSeq(sp, 1, IF n < Len(sp) THEN n ELSE Len(sp))

\* ikura::span::take_last
take_last(sp, n) == IF n >= Len(sp) THEN sp ELSE SubSeq(sp, Len(sp) - n + 1, Len(sp))

\* the walk of generate_one along a WordList for one selection: the index
\* of the word whose slot holds the selection, or NoWord past the last word
NoWord == -1
RECURSIVE frequency_walk(_, _)

\* a variant of the walk that takes a word once the selection has reached
\* its frequency
frequency_walk_late(words, selection) ==
    IF words = <<>> THEN NoWord
    ELSE IF Head(words).frequency >= selection THEN Head(words).index
    ELSE frequency_walk(Tail(words), selection - Head(words).frequency)

frequency_walk(words, selection) ==
    IF words = <<>> THEN NoWord
    ELSE IF Head(words).frequency > selection THEN Head(words).index
    ELSE frequency_walk(Tail(words), selection - Head(words).frequency)

\* random::get<size_t>(0, totalFrequency - 1)
Selections(wl) == 0 .. wl.totalFrequency - 1

\* the loop of generate_one on the sampled prefix: every word it can return,
\* over the selections drawn for the prefixes that have a table entry
RECURSIVE generate_from(_, _)

\* a variant of the loop that shortens the prefix at its newest index
generate_from_newest(model, prefix) ==
    IF prefix = <<>> THEN {IDX_END_MARKER}
    ELSE LET prefix_hash == hash_prefix(prefix)
             shorter == generate_from(model, SubSeq(prefix, 1, Len(prefix) - 1))
         IN  IF prefix_hash \in DOMAIN model.table
             THEN {frequency_walk(model.table[prefix_hash].words, sel) :
                      sel \in Selections(model.table[prefix_hash])}
             ELSE shorter

generate_from(model, prefix) ==
    IF prefix = <<>> THEN {IDX_END_MARKER}
    ELSE LET prefix_hash == hash_prefix(prefix)
             shorter == generate_from(model, Tail(prefix))
         IN  IF prefix_hash \in DOMAIN model.table
             THEN LET wl == model.table[prefix_hash]
                      found == {frequency_walk(wl.words, sel) : sel \in Selections(wl)}
                  IN  (found \ {NoWord})
                         \cup (IF found = {} \/ NoWord \in found THEN shorter ELSE {})
             ELSE shorter

\* a variant of generate_one that samples the front of the output
generate_one_front(model, prefix, pfl) ==
    IF prefix = <<>> THEN {IDX_END_MARKER}
    ELSE generate_from(model, take_first(prefix, pfl))

\* generate_one for a sampled prefix length pfl = 1 + rd_distr(...)
generate_one(model, prefix, pfl) ==
    IF prefix = <<>> THEN {IDX_END_MARKER}
    ELSE generate_from(model, take_last(prefix, pfl))
PrefixLengths == 1 .. MAX_PREFIX_LENGTH

\* generateMessage, the seed loop: the indices of the seed words that the
\* model knows, in order
RECURSIVE seed_indices(_, _)
seed_indices(model, seed) ==
    IF seed = <<>> THEN <<>>
    ELSE (IF Head(seed) \in DOMAIN model.wordIndices
          THEN <<model.wordIndices[Head(seed)]>> ELSE <<>>)
         \o seed_indices(model, Tail(seed))

\* output after the seed loop and the push of the start marker
seed_output(model, seed) ==
    LET found == seed_indices(model, seed)
    IN  IF found = <<>> THEN <<IDX_START_MARKER>> ELSE found

\* a variant of the loop condition that lets the output grow one word longer
has_room_one_more(output) == Len(output) <= max_length

\* the condition of the while loop: output.size() < max_length
has_room(output) == Len(output) < max_length

\* the Message built from the output: one fragment per word that is not empty
Fragment(word, emote, space) == [word |-> word, emote |-> emote, space |-> space]
RECURSIVE build_message(_, _, _)
build_message(model, output, stripPings) ==
    IF output = <<>> THEN <<>>
    ELSE LET w == model.wordList[Head(output) + 1]
             word == IF stripPings /\ w.word # <<>> /\ w.word[1] = "@"
                     THEN Tail(w.word) ELSE w.word
             rest == build_message(model, Tail(output), stripPings)
         IN  IF w.word = <<>> THEN rest
             ELSE IF w.flags % 2 = WORD_FLAG_EMOTE THEN <<Fragment(word, TRUE, TRUE)>> \o rest
             ELSE IF Len(word) = 1 /\ word[1] \in {".", ",", "?", "!"}
             THEN <<Fragment(word, FALSE, FALSE)>> \o rest
             ELSE <<Fragment(word, FALSE, TRUE)>> \o rest

\* the training messages, and the logs the models are trained from
GoodMorningChat    == <<"g", "o", "o", "d", " ", "m", "o", "r", "n", "i", "n", "g", " ", "c", "h", "a", "t">>
GoodMorningFriends == <<"g", "o", "o", "d", " ", "m", "o", "r", "n", "i", "n", "g", " ", "f", "r", "i", "e", "n", "d", "s">>
ChatChatGood       == <<"c", "h", "a", "t", " ", "c", "h", "a", "t", " ", "g", "o", "o", "d">>
Corpus == {GoodMorningChat, GoodMorningFriends, ChatChatGood}
TrainingLogs ==
    {<<>>} \cup {<<m>> : m \in Corpus} \cup {<<m, n>> : m \in Corpus, n \in Corpus}
        \cup {<<GoodMorningChat, GoodMorningChat, GoodMorningFriends>>}
RECURSIVE Train(_, _)
Train(model, log) ==
    IF log = <<>> THEN model ELSE Train(IngestOne(model, Head(log), <<>>), Tail(log))

\* what training observed: the pairs of a prefix of 1 to 3 indices and the
\* index that followed it
ObservedIn(words) ==
    {<<prefix_at(words, i, k), target_at(words, i, k)>> :
        <<i, k>> \in {ik \in (0 .. Len(words)) \X PrefixLengths : in_loop(words, ik[1], ik[2])}}
RECURSIVE Observed(_, _)
Observed(model, log) ==
    IF log = <<>> THEN {}
    ELSE LET word_arr == split_words(Head(log), <<>>)
             r == map_word_indices(model, word_arr)
         IN  IF Len(word_arr) < MIN_INPUT_LENGTH THEN Observed(model, Tail(log))
             ELSE ObservedIn(r.ret) \cup Observed(IngestOne(model, Head(log), <<>>), Tail(log))

\* the seed words, one of which no training message holds
SeedWords == {<<"g", "o", "o", "d">>, <<"c", "h", "a", "t">>, <<"h", "e", "l", "l", "o">>}
Seeds == UNION {[1 .. n -> SeedWords] : n \in 0 .. MaxSeed}

\* config::markov::getConfig(): minLength, maxRetries, stripPings
MinLengths == {0, 3}
MaxRetries == {0, 1}

GenerateCall(log, seed, min_length, retries) ==
    [fn |-> "generateMessage", done |-> FALSE, pc |-> "seed",
     log |-> log, model |-> Train(initialise_model(MarkovModel), log),
     observed |-> Observed(initialise_model(MarkovModel), log),
     seed |-> seed, min_length |-> min_length, retries |-> retries,
     output |-> <<>>, words |-> 0, stopped |-> "no", msg |-> <<>>]

InitGenerate ==
    InitMarkov /\ InitDatabase /\ primary = NoFile /\ InitInterp /\ InitTwitch
        /\ call \in {GenerateCall(log, seed, min_length, retries) :
                        log \in TrainingLogs, seed \in Seeds,
                        min_length \in MinLengths, retries \in MaxRetries}

Generating(pc) == call.fn = "generateMessage" /\ call.pc = pc

\* an attempt starts: the output is cleared and the seed words are looked up
generate_seed ==
    /\ Generating("seed")
    /\ call' = [call EXCEPT !.output = seed_output(call.model, call.seed),
                            !.words = 0, !.stopped = "no", !.pc = "grow"]
    /\ UNCHANGED << interpreter, last, icalls, disp >>
    /\ UNCHANGED << mvars, dbvars, tvars >>

\* one turn of the while loop: generate_one, and the word is pushed unless
\* it is the end marker
generate_word ==
    /\ Generating("grow")
    /\ has_room(call.output)
    /\ \E pfl \in PrefixLengths :
          \E word \in generate_one(call.model, call.output, pfl) :
             call' = IF word = IDX_END_MARKER
                     THEN [call EXCEPT !.stopped = "end", !.pc = "check"]
                     ELSE [call EXCEPT !.output = Append(@, word), !.words = @ + 1]
    /\ UNCHANGED << interpreter, last, icalls, disp >>
    /\ UNCHANGED << mvars, dbvars, tvars >>

\* the while loop ends because the output is long enough
generate_full ==
    /\ Generating("grow")
    /\ ~has_room(call.output)
    /\ call' = [call EXCEPT !.stopped = "full", !.pc = "check"]
    /\ UNCHANGED << interpreter, last, icalls, disp >>
    /\ UNCHANGED << mvars, dbvars, tvars >>

\* the end of an attempt: enough words, or another attempt, or none left
generate_check ==
    /\ Generating("check")
    /\ call' = IF Len(call.output) >= call.min_length THEN [call EXCEPT !.pc = "build"]
               ELSE IF call.retries > 0 THEN [call EXCEPT !.retries = @ - 1, !.pc = "seed"]
               ELSE [call EXCEPT !.pc = "build"]
    /\ UNCHANGED << interpreter, last, icalls, disp >>
    /\ UNCHANGED << mvars, dbvars, tvars >>

\* the Message is built from the output and returned
generate_return ==
    /\ Generating("build")
    /\ \E stripPings \in BOOLEAN :
          call' = [call EXCEPT !.msg = build_message(call.model, call.output, stripPings),
                               !.pc = "returned", !.done = TRUE]
    /\ UNCHANGED << interpreter, last, icalls, disp >>
    /\ UNCHANGED << mvars, dbvars, tvars >>

NextGenerate ==
    \/ generate_seed
    \/ generate_word
    \/ generate_full
    \/ generate_check
    \/ generate_return

SpecGenerate == InitGenerate /\ [][NextGenerate]_vars

\* the thread that called generateMessage keeps running
SpecGenerateFair == SpecGenerate /\ WF_vars(NextGenerate)

\* the walk of generate_one on its own: WordLists of up to MaxWords words
\* with frequencies of up to MaxFrequency, as process_one builds them
MaxWords == 3
MaxFrequency == 3
WalkIndices == 1 .. MaxWords
WalkWords ==
    UNION {{ws \in [1 .. n -> [index : WalkIndices, frequency : 1 .. MaxFrequency]] :
               \A i \in 1 .. n, j \in 1 .. n : i # j => ws[i].index # ws[j].index} :
           n \in 1 .. MaxWords}
RECURSIVE sum_frequency(_)
sum_frequency(words) ==
    IF words = <<>> THEN 0 ELSE Head(words).frequency + sum_frequency(Tail(words))
WalkList(words) ==
    [totalFrequency |-> sum_frequency(words), words |-> words,
     globalIndexMap |-> [w \in {words[i].index : i \in DOMAIN words} |->
                            (CHOOSE i \in DOMAIN words : words[i].index = w) - 1]]

InitWalk ==
    InitMarkov /\ InitDatabase /\ primary = NoFile /\ InitInterp /\ InitTwitch
        /\ call \in {[fn |-> "frequency_walk", wl |-> WalkList(ws), selection |-> sel,
                       done |-> FALSE] :
                        <<ws, sel>> \in {p \in WalkWords \X (0 .. MaxWords * MaxFrequency - 1) :
                                            p[2] < sum_frequency(p[1])}}

\* generate_one draws a selection and walks the WordList
call_frequency_walk ==
    /\ call.fn = "frequency_walk" /\ ~call.done
    /\ call' = [call EXCEPT !.done = TRUE]
                  @@ [out |-> frequency_walk(call.wl.words, call.selection)]
    /\ UNCHANGED << interpreter, last, icalls, disp >>
    /\ UNCHANGED << mvars, dbvars, tvars >>

NextWalk == call_frequency_walk

SpecWalk == InitWalk /\ [][NextWalk]_vars

(* ================================================================== *)
(* markov.cpp: the retraining counters, statement by statement         *)
(* ================================================================== *)
\* retrainingTotalSize is written by retrain() and by the worker with no lock
\* around the statements that use it; here every statement of lines 152-161
\* and 251-252 is a step, each of them atomic

\* line 154: State.retrainingCompleted++
WorkerCompleted ==
    /\ worker.pc = "count"
    /\ IF worker.input.retraining
       THEN /\ retrainingCompleted' = retrainingCompleted + 1
            /\ worker' = [worker EXCEPT !.pc = "compare"]
       ELSE /\ UNCHANGED retrainingCompleted
            /\ worker' = [worker EXCEPT !.pc = "pop"]
    /\ UNCHANGED << queue, markov, mlock, retrainingTotalSize, messageLog, rt, sd,
                    markovFile, calls, hist >>
    /\ UNCHANGED << dbvars, ivars, tvars >>

\* line 155: if(State.retrainingCompleted == State.retrainingTotalSize)
WorkerCompare ==
    /\ worker.pc = "compare"
    /\ worker' = [worker EXCEPT !.pc = IF retrainingCompleted = retrainingTotalSize
                                       THEN "clear_total" ELSE "pop"]
    /\ UNCHANGED << queue, markov, mlock, retrainingTotalSize, retrainingCompleted,
                    messageLog, rt, sd, markovFile, calls, hist >>
    /\ UNCHANGED << dbvars, ivars, tvars >>

\* line 158: State.retrainingTotalSize = 0
WorkerClearTotal ==
    /\ worker.pc = "clear_total"
    /\ retrainingTotalSize' = 0
    /\ worker' = [worker EXCEPT !.pc = "clear_completed"]
    /\ UNCHANGED << queue, markov, mlock, retrainingCompleted, messageLog, rt, sd,
                    markovFile, calls, hist >>
    /\ UNCHANGED << dbvars, ivars, tvars >>

\* line 159: State.retrainingCompleted = 0
WorkerClearCompleted ==
    /\ worker.pc = "clear_completed"
    /\ retrainingCompleted' = 0
    /\ worker' = [worker EXCEPT !.pc = "pop"]
    /\ UNCHANGED << queue, markov, mlock, retrainingTotalSize, messageLog, rt, sd,
                    markovFile, calls, hist >>
    /\ UNCHANGED << dbvars, ivars, tvars >>

\* line 251: State.retrainingTotalSize++
RetrainCount ==
    /\ rt.pc = "push"
    /\ rt.j <= Len(rt.inputs)
    /\ retrainingTotalSize' = retrainingTotalSize + 1
    /\ rt' = [rt EXCEPT !.pc = "enqueue"]
    /\ UNCHANGED << queue, markov, mlock, worker, retrainingCompleted,
                    messageLog, sd, markovFile, calls, hist >>
    /\ UNCHANGED << dbvars, ivars, tvars >>

\* line 252: State.queue.push_quiet(QueuedMsg::retrain(msg.str(), emotes))
RetrainEnqueue ==
    /\ rt.pc = "enqueue"
    /\ LET inp == rt.inputs[rt.j]
           emotes == unique_emotes(sort_emotes(inp.emotes))
       IN  queue' = queue_push(queue, QueuedMsg_retrain(inp.msg, emotes, hist.nextId))
    /\ rt' = [rt EXCEPT !.j = @ + 1, !.pc = "push"]
    /\ hist' = [hist EXCEPT !.nextId = @ + 1]
    /\ UNCHANGED << markov, mlock, worker, retrainingTotalSize, retrainingCompleted,
                    messageLog, sd, markovFile, calls >>
    /\ UNCHANGED << dbvars, ivars, tvars >>

\* the chat thread, the Markov worker and retrain(), with the counters
\* stepped statement by statement
NextProgress ==
    \/ WorkerPop \/ WorkerIndices \/ WorkerTable \/ WorkerWord
    \/ WorkerCompleted \/ WorkerCompare \/ WorkerClearTotal \/ WorkerClearCompleted
    \/ RetrainReset \/ RetrainRead \/ RetrainCount \/ RetrainEnqueue \/ RetrainReturn
    \/ \E inp \in ChatInputs, ran_cmd \in BOOLEAN : processMessage(inp, ran_cmd)

SpecProgress == Init /\ [][NextProgress]_vars

(* ================================================================== *)
(* interp/builtin.cpp: def, redef and undef from several threads       *)
(* ================================================================== *)
MaxThreads == 2     \* threads that run a command on the same name

\* each backend runs the commands of its chat on a thread of its own; every
\* interpreter().rlock() / wlock() expression holds the lock for its own
\* statement only, so a command is a sequence of steps
RaceThreads == 1 .. MaxThreads
RaceName == <<"a">>
RaceBodies == {<<"b">>, <<"c">>}
RaceCommands == {cmd_def, cmd_redef, cmd_undef}
NoReply == [text |-> <<>>, commands |-> <<>>]
IdleThread == [pc |-> "idle", cmd |-> <<>>, body |-> <<>>, reply |-> NoReply]

InitRace ==
    InitMarkov /\ InitDatabase /\ primary = NoFile /\ InitInterp /\ InitTwitch
        /\ call \in {[fn |-> "commands", interp |-> interp,
                       threads |-> [t \in RaceThreads |-> IdleThread]] :
                        interp \in {InterpState,
                                    [InterpState EXCEPT !.commands =
                                        emplace(@, RaceName, Macro(RaceName, <<"0">>))]}}

RaceStep(t, pc) == call.fn = "commands" /\ call.threads[t].pc = pc
Redef(t) == call.threads[t].cmd = cmd_redef

\* chan->sendMessage(...): the reply, with the registry as it is when sent
Reply(t, text) ==
    [call EXCEPT !.threads[t].pc = "done",
                 !.threads[t].reply = [text |-> text, commands |-> call.interp.commands]]

\* a thread is handed `def a BODY`, `redef a BODY` or `undef a`
race_command(t, cmd, body) ==
    /\ RaceStep(t, "idle")
    /\ call' = [call EXCEPT !.threads[t] =
                    [IdleThread EXCEPT !.cmd = cmd, !.body = body,
                                       !.pc = IF cmd = cmd_undef THEN "undef" ELSE "find"]]
    /\ UNCHANGED << interpreter, last, icalls, disp >>
    /\ UNCHANGED << mvars, dbvars, tvars >>

\* internal_def, line 139: interpreter().rlock()->findCommand(name)
race_find(t) ==
    /\ RaceStep(t, "find")
    /\ LET existing == findCommand(call.interp, RaceName).found
       IN  call' = [call EXCEPT !.threads[t].pc =
                        IF existing THEN (IF Redef(t) THEN "remove" ELSE "refuse_defined")
                        ELSE (IF Redef(t) THEN "refuse_missing" ELSE "emplace")]
    /\ UNCHANGED << interpreter, last, icalls, disp >>
    /\ UNCHANGED << mvars, dbvars, tvars >>

\* lines 141 and 146: the two refusals
race_refuse(t) ==
    /\ \/ /\ RaceStep(t, "refuse_defined")
          /\ call' = Reply(t, <<"'", RaceName, "' is already defined">>)
       \/ /\ RaceStep(t, "refuse_missing")
          /\ call' = Reply(t, <<"'", RaceName, "' does not exist">>)
    /\ UNCHANGED << interpreter, last, icalls, disp >>
    /\ UNCHANGED << mvars, dbvars, tvars >>

\* line 142: interpreter().wlock()->removeCommandOrAlias(name)
race_remove(t) ==
    /\ RaceStep(t, "remove")
    /\ call' = [call EXCEPT !.interp = removeCommandOrAlias(@, RaceName).interp,
                            !.threads[t].pc = "emplace"]
    /\ UNCHANGED << interpreter, last, icalls, disp >>
    /\ UNCHANGED << mvars, dbvars, tvars >>

\* line 149: interpreter().wlock()->commands.emplace(name, new Macro(...))
race_emplace(t) ==
    /\ RaceStep(t, "emplace")
    /\ call' = [call EXCEPT !.interp.commands =
                                emplace(@, RaceName, Macro(RaceName, call.threads[t].body)),
                            !.threads[t].pc = "reply"]
    /\ UNCHANGED << interpreter, last, icalls, disp >>
    /\ UNCHANGED << mvars, dbvars, tvars >>

\* line 150: the reply of a def or redef that went through
race_reply(t) ==
    /\ RaceStep(t, "reply")
    /\ call' = Reply(t, <<IF Redef(t) THEN "redefined '" ELSE "defined '", RaceName, "'">>)
    /\ UNCHANGED << interpreter, last, icalls, disp >>
    /\ UNCHANGED << mvars, dbvars, tvars >>

\* command_undef, line 183: interpreter().wlock()->removeCommandOrAlias(arg_str)
race_undef(t) ==
    /\ RaceStep(t, "undef")
    /\ LET r == removeCommandOrAlias(call.interp, RaceName)
       IN  call' = [call EXCEPT !.interp = r.interp,
                                !.threads[t].pc = IF r.done THEN "removed" ELSE "refuse_missing"]
    /\ UNCHANGED << interpreter, last, icalls, disp >>
    /\ UNCHANGED << mvars, dbvars, tvars >>

\* lines 185-188: the reply of an undef that removed the command
race_removed(t) ==
    /\ RaceStep(t, "removed")
    /\ call' = Reply(t, <<"removed '", RaceName, "'">>)
    /\ UNCHANGED << interpreter, last, icalls, disp >>
    /\ UNCHANGED << mvars, dbvars, tvars >>

NextRace ==
    \E t \in RaceThreads :
        \/ \E cmd \in RaceCommands, body \in RaceBodies : race_command(t, cmd, body)
        \/ race_find(t) \/ race_refuse(t) \/ race_remove(t) \/ race_emplace(t)
        \/ race_reply(t) \/ race_undef(t) \/ race_removed(t)

SpecRace == InitRace /\ [][NextRace]_vars

(* ================================================================== *)
(* backends/twitch/message.cpp: get_emote_indices                      *)
(* ================================================================== *)
MaxText == 3        \* codepoints of a chat message carrying emotes

\* util::stou: the decimal number a text spells, or nothing
stou(text) ==
    IF text = <<>> \/ \E i \in DOMAIN text : text[i] \notin Digits
    THEN [ok |-> FALSE, value |-> 0]
    ELSE [ok |-> TRUE, value |-> stoll(text, 10, 0)]

\* unicode::get_byte_length
get_byte_length(cp) == IF cp = WideChar THEN 2 ELSE 1

\* lines 262-274: the begin-end pairs of one begin-end,begin-end list
RECURSIVE emote_positions(_)
emote_positions(pos) ==
    IF pos = <<>> THEN <<>>
    ELSE LET p == Head(pos)
             k == find(p, "-")
             a == stou(take(p, k))
             b == stou(drop(p, k + 1))
         IN  (IF k # NPOS /\ a.ok /\ b.ok THEN <<[first |-> a.value, second |-> b.value]>>
              ELSE <<>>)
             \o emote_positions(Tail(pos))

\* lines 256-276: the pairs of every ID:begin-end,... entry of the tag
RECURSIVE emote_list(_)
emote_list(list) ==
    IF list = <<>> THEN <<>>
    ELSE LET emt == Head(list)
             id == IF find(emt, ":") = NPOS THEN emt ELSE take(emt, find(emt, ":"))
             indices == drop(emt, Len(id) + 1)
         IN  emote_positions(util_split(indices, ",")) \o emote_list(Tail(list))

\* lines 248-282: pos_arr, from the text of the emotes tag
pos_arr(emotes) ==
    IF emotes = <<>> THEN <<>> ELSE emote_list(util_split(emotes, "/"))

\* line 289: std::sort by the start index
RECURSIVE insert_position(_, _)
insert_position(sorted, p) ==
    IF sorted = <<>> THEN <<p>>
    ELSE IF p.first < Head(sorted).first THEN <<p>> \o sorted
    ELSE <<Head(sorted)>> \o insert_position(Tail(sorted), p)
RECURSIVE sort_positions(_)
sort_positions(arr) ==
    IF arr = <<>> THEN <<>>
    ELSE insert_position(sort_positions(SubSeq(arr, 1, Len(arr) - 1)), arr[Len(arr)])

\* utf8.substr(pos, n) as the offset and the size of the view
view_substr(size, pos, n) == [start |-> pos, size |-> IF pos + n > size THEN size - pos ELSE n]

\* lines 300-322: the scan of the codepoints against positions[0]
RECURSIVE emote_scan(_, _, _, _, _, _, _)
emote_scan(utf8_len, utf32, idx8, idx32, first_idx8, positions, ret) ==
    IF ~(idx8 < utf8_len /\ idx32 < Len(utf32)) \/ positions = <<>> THEN ret
    ELSE LET begins == idx32 = positions[1].first
             ends   == ~begins /\ idx32 = positions[1].second
         IN  emote_scan(utf8_len, utf32,
                        idx8 + get_byte_length(utf32[idx32 + 1]), idx32 + 1,
                        IF begins THEN idx8 ELSE first_idx8,
                        IF ends THEN Tail(positions) ELSE positions,
                        IF ends THEN Append(ret, view_substr(utf8_len, first_idx8,
                                                             idx8 + 1 - first_idx8))
                        ELSE ret)

\* get_emote_indices: the views into the UTF-8 text, one per emote found
get_emote_indices(emotes, utf32) ==
    LET found == pos_arr(emotes)
    IN  IF found = <<>> THEN <<>>
        ELSE emote_scan(utf8_size(utf32), utf32, 0, 0, 0, sort_positions(found), <<>>)

\* the text of an emotes tag for ranges given in tag order, each range
\* under an emote id of its own
DigitText == <<"0", "1", "2", "3", "4", "5", "6", "7", "8", "9">>
RECURSIVE TagOf(_, _)
TagOf(ranges, id) ==
    IF ranges = <<>> THEN <<>>
    ELSE <<DigitText[id + 1], ":", DigitText[Head(ranges)[1] + 1], "-",
           DigitText[Head(ranges)[2] + 1]>>
         \o (IF Len(ranges) > 1 THEN <<"/">> ELSE <<>>) \o TagOf(Tail(ranges), id + 1)

\* the chat texts, and the in-bounds ranges with begin <= end that do not
\* overlap, in every order
EmoteTexts == UNION {[1 .. n -> {"a", WideChar}] : n \in 1 .. MaxText}
Ranges(text) == {r \in (0 .. Len(text) - 1) \X (0 .. Len(text) - 1) : r[1] <= r[2]}
RangeLists(text) ==
    UNION {{rs \in [1 .. n -> Ranges(text)] :
               \A i \in 1 .. n, j \in 1 .. n :
                   i # j => (rs[i][2] < rs[j][1] \/ rs[j][2] < rs[i][1])} :
           n \in 0 .. Len(text)}

InitEmotes ==
    InitMarkov /\ InitDatabase /\ primary = NoFile /\ InitInterp /\ InitTwitch
        /\ call \in {[fn |-> "get_emote_indices", text |-> tr[1], ranges |-> tr[2],
                       done |-> FALSE] :
                        tr \in UNION {{<<text, rs>> : rs \in RangeLists(text)} :
                                        text \in EmoteTexts}}

call_get_emote_indices ==
    /\ call.fn = "get_emote_indices" /\ ~call.done
    /\ call' = [call EXCEPT !.done = TRUE]
                  @@ [emotes |-> TagOf(call.ranges, 1),
                      out |-> get_emote_indices(TagOf(call.ranges, 1), call.text)]
    /\ UNCHANGED << interpreter, last, icalls, disp >>
    /\ UNCHANGED << mvars, dbvars, tvars >>

NextEmotes == call_get_emote_indices

SpecEmotes == InitEmotes /\ [][NextEmotes]_vars

\* process_one on its own: messages of up to MaxFilterWords words
MaxFilterWords == 7
RECURSIVE WordsOf(_)
WordsOf(n) ==
    IF n = 0 THEN <<>> ELSE IF n = 1 THEN <<"a">> ELSE WordsOf(n - 1) \o <<" ", "b">>

InitFilter ==
    InitMarkov /\ InitDatabase /\ primary = NoFile /\ InitInterp /\ InitTwitch
        /\ call \in {[fn |-> "process_one", msg |-> WordsOf(n), x |-> x, done |-> FALSE] :
                        n \in 0 .. MaxFilterWords, x \in Draws}

call_process_one ==
    /\ call.fn = "process_one" /\ ~call.done
    /\ call' = [call EXCEPT !.done = TRUE]
                  @@ [out |-> process_one(initialise_model(MarkovModel), call.msg, <<>>, call.x)]
    /\ UNCHANGED << interpreter, last, icalls, disp >>
    /\ UNCHANGED << mvars, dbvars, tvars >>

NextFilter == call_process_one

SpecFilter == InitFilter /\ [][NextFilter]_vars

\* generate_one on its own: the outputs generateMessage can hand to it are
\* the start marker alone and the runs of up to MaxOutput known words
MaxOutput == 3
KnownIndices(model) == (IDX_END_MARKER + 1) .. (Len(model.wordList) - 1)
Outputs(model) ==
    {<<>>, <<IDX_START_MARKER>>}
        \cup UNION {[1 .. n -> KnownIndices(model)] : n \in 1 .. MaxOutput}

InitGenerateOne ==
    InitMarkov /\ InitDatabase /\ primary = NoFile /\ InitInterp /\ InitTwitch
        /\ call \in {[fn |-> "generate_one", model |-> mp[1], prefix |-> mp[2],
                       pfl |-> pfl, done |-> FALSE] :
                        mp \in UNION {{<<model, prefix>> : prefix \in Outputs(model)} :
                                        model \in {Train(initialise_model(MarkovModel), log) :
                                                      log \in TrainingLogs}},
                        pfl \in PrefixLengths}

\* generate_one returns one of the words it can return
call_generate_one ==
    /\ call.fn = "generate_one" /\ ~call.done
    /\ \E word \in generate_one(call.model, call.prefix, call.pfl) :
          call' = [call EXCEPT !.done = TRUE] @@ [out |-> word]
    /\ UNCHANGED << interpreter, last, icalls, disp >>
    /\ UNCHANGED << mvars, dbvars, tvars >>

NextGenerateOne == call_generate_one

SpecGenerateOne == InitGenerateOne /\ [][NextGenerateOne]_vars

(* ================================================================== *)
(* the Database lock and the Markov model lock                         *)
(* ================================================================== *)
\* what a thread does to the two Synchronised cells, in program order
Acquire(lock, mode) == [op |-> "acquire", lock |-> lock, mode |-> mode]
Release(lock)       == [op |-> "release", lock |-> lock, mode |-> "none"]
Locked(lock, mode, inside) == <<Acquire(lock, mode)>> \o inside \o <<Release(lock)>>

\* reset(): markovModel().perform_write
reset_locks == Locked("Markov", "write", <<>>)

\* a variant of process_one that reads the Database inside its first
\* write to the model
process_one_locks_reading ==
    Locked("Markov", "write", Locked("Database", "read", <<>>))
        \o Locked("Markov", "write", <<>>)

\* process_one: map_write for the word indices, perform_write for a count
process_one_locks ==
    Locked("Markov", "write", <<>>) \o Locked("Markov", "write", <<>>)

\* retrain(): reset(), then database().perform_read over the message log
retrain_locks == reset_locks \o Locked("Database", "read", <<>>)

\* generateMessage: the seed lookup, generate_one, the message
generateMessage_locks ==
    Locked("Markov", "read", <<>>) \o Locked("Markov", "read", <<>>)
        \o Locked("Markov", "read", <<>>)

\* update_user_creds: database().perform_write
update_user_creds_locks == Locked("Database", "write", <<>>)

\* TwitchState::logMessage: the message log is written under the write lock
logMessage_locks == Locked("Database", "write", <<>>)

\* TwitchState::processMessage for a PRIVMSG: update_user_creds, a command
\* that may generate a message, logMessage
processMessage_locks ==
    {update_user_creds_locks \o command \o logMessage_locks :
        command \in {<<>>, generateMessage_locks}}

\* MarkovDB::serialise: markovModel().perform_read
MarkovDB_serialise_locks == Locked("Markov", "read", <<>>)

\* MarkovDB::deserialise: the wlock assignment, then perform_write
MarkovDB_deserialise_locks ==
    Locked("Markov", "write", <<>>) \o Locked("Markov", "write", <<>>)

\* rlock()->sync(): Database::serialise runs inside; the version of it that
\* writes the Markov payload calls MarkovDB::serialise
sync_locks ==
    {Locked("Database", "read", <<>>), Locked("Database", "read", MarkovDB_serialise_locks)}

\* load(): createNewDatabase or not, Database::deserialise with or without
\* the Markov payload, then the wlock assignment
load_locks ==
    {created \o decoded \o Locked("Database", "write", <<>>) :
        created \in {<<>>} \cup {Locked("Database", "write", <<>>) \o sy : sy \in sync_locks},
        decoded \in {<<>>, MarkovDB_deserialise_locks}}

LockThreads == {"chat", "worker", "retrain", "generate", "syncer", "loader"}
Programs ==
    [chat     |-> processMessage_locks,
     worker   |-> {process_one_locks},
     retrain  |-> {retrain_locks},
     generate |-> {generateMessage_locks},
     syncer   |-> sync_locks,
     loader   |-> load_locks]

InitLocks ==
    InitMarkov /\ InitDatabase /\ primary = NoFile /\ InitInterp /\ InitTwitch
        /\ call = [fn |-> "locks", done |-> FALSE,
                   prog |-> [t \in LockThreads |-> <<>>],
                   held |-> [t \in LockThreads |-> <<>>]]

\* the locks a thread holds, and the step it is at
HeldLocks(t) == {call.held[t][i].lock : i \in DOMAIN call.held[t]}
Holds(t, lock, mode) ==
    \E i \in DOMAIN call.held[t] : call.held[t][i] = [lock |-> lock, mode |-> mode]
AtAcquire(t) == call.fn = "locks" /\ call.prog[t] # <<>> /\ Head(call.prog[t]).op = "acquire"

\* a readers-writer lock lets a reader in while no other thread writes, and
\* a writer while no other thread is in
Available(t, lock, mode) ==
    \A u \in LockThreads \ {t} :
        /\ ~Holds(u, lock, "write")
        /\ mode = "write" => ~Holds(u, lock, "read")

\* a thread enters one of its operations
lock_call(t) ==
    /\ call.fn = "locks" /\ call.prog[t] = <<>>
    /\ \E p \in Programs[t] : call' = [call EXCEPT !.prog[t] = p]
    /\ UNCHANGED << interpreter, last, icalls, disp >>
    /\ UNCHANGED << mvars, dbvars, tvars >>

\* rlock(), wlock(), perform_read, perform_write, map_read, map_write: the
\* lock is taken; a thread that already holds it waits for itself
lock_acquire(t) ==
    /\ AtAcquire(t)
    /\ LET a == Head(call.prog[t])
       IN  /\ a.lock \notin HeldLocks(t)
           /\ Available(t, a.lock, a.mode)
           /\ call' = [call EXCEPT !.prog[t] = Tail(@),
                                   !.held[t] = Append(@, [lock |-> a.lock, mode |-> a.mode])]
    /\ UNCHANGED << interpreter, last, icalls, disp >>
    /\ UNCHANGED << mvars, dbvars, tvars >>

\* the callback returns, or the lock object goes out of scope
lock_release(t) ==
    /\ call.fn = "locks" /\ call.prog[t] # <<>> /\ Head(call.prog[t]).op = "release"
    /\ call' = [call EXCEPT !.prog[t] = Tail(@),
                            !.held[t] = SelectSeq(@, LAMBDA h : h.lock # Head(call.prog[t]).lock)]
    /\ UNCHANGED << interpreter, last, icalls, disp >>
    /\ UNCHANGED << mvars, dbvars, tvars >>

NextLocks ==
    \/ \E t \in LockThreads : lock_call(t)
    \/ \E t \in LockThreads : lock_acquire(t)
    \/ \E t \in LockThreads : lock_release(t)

SpecLocks == InitLocks /\ [][NextLocks]_vars

(* ------------------------------------------------------------------ *)
(* properties of generation                                            *)
(* ------------------------------------------------------------------ *)
GenerateStarted == call.fn = "generateMessage" /\ call.pc # "seed"
AllSeedsKnown ==
    \A i \in DOMAIN call.seed : call.seed[i] \in DOMAIN call.model.wordIndices
SeedIndices == [i \in DOMAIN call.seed |-> call.model.wordIndices[call.seed[i]]]

\* the word at position j of the output followed, in training, the 1 to 3
\* words before it
FollowsSuffix(j) ==
    \E k \in PrefixLengths :
        /\ k < j
        /\ <<SubSeq(call.output, j - k, j - 1), call.output[j]>> \in call.observed

\* C23: when every seed word is known, the output begins with the seed
\* words in order and every later word followed, in training, a suffix of
\* 1 to 3 words of the output before it; after "good morning chat" and
\* "good morning friends" the seed "good" gives a message that begins with
\* good morning
C23_SeedsThenObserved ==
    (GenerateStarted /\ AllSeedsKnown) =>
        /\ call.seed # <<>> => take(call.output, Len(call.seed)) = SeedIndices
        /\ \A j \in DOMAIN call.output :
              j > Len(call.output) - call.words => FollowsSuffix(j)
        /\ Len(call.output) - call.words = (IF call.seed = <<>> THEN 1 ELSE Len(call.seed))
        /\ ( /\ call.pc = "returned"
             /\ call.log = <<GoodMorningChat, GoodMorningFriends>>
             /\ call.seed = <<<<"g", "o", "o", "d">>>> )
           => /\ Len(call.msg) >= 2
              /\ call.msg[1].word = <<"g", "o", "o", "d">>
              /\ call.msg[2].word = <<"m", "o", "r", "n", "i", "n", "g">>

C23_Witness ==
    /\ Generating("returned")
    /\ call.log = <<GoodMorningChat, GoodMorningFriends>>
    /\ call.seed = <<<<"g", "o", "o", "d">>>>
    /\ Len(call.msg) = 3
    /\ call.msg[3].word = <<"f", "r", "i", "e", "n", "d", "s">>

\* the seed words that the model knows
KnownSeeds == {i \in DOMAIN call.seed : call.seed[i] \in DOMAIN call.model.wordIndices}
Longest(a, b) == IF a > b THEN a ELSE b

\* an attempt ends when generate_one returns the end marker or when the
\* output has reached max_length, and never holds the end marker
AttemptEnds ==
    call.fn = "generateMessage" =>
        /\ \A j \in DOMAIN call.output : call.output[j] # IDX_END_MARKER
        /\ call.stopped = "full" => Len(call.output) >= max_length
        /\ call.words > 0 => Len(call.output) <= max_length

\* C29 as stated: the output of an attempt never holds more than max_length
\* indices and never the end index, and the attempt ends at the end index
\* or at max_length
C29_AtMostMaxLength ==
    /\ [](AttemptEnds /\ (call.fn = "generateMessage" => Len(call.output) <= max_length))
    /\ <>(call.fn = "generateMessage" /\ call.pc = "returned")

\* C29: every attempt terminates; its output holds at most max_length
\* indices, or the known seed words when these are more, and never the end
\* index; the attempt ends at the end index or at max_length
C29_BoundedOutput ==
    /\ [](AttemptEnds /\ (call.fn = "generateMessage" =>
                            Len(call.output) <= Longest(max_length, Cardinality(KnownSeeds))))
    /\ <>(call.fn = "generateMessage" /\ call.pc = "returned")

C29_Witness ==
    /\ Generating("returned")
    /\ call.stopped = "full"
    /\ call.words = 2
    /\ Len(call.output) = max_length

(* ------------------------------------------------------------------ *)
(* properties of the frequency walk                                    *)
(* ------------------------------------------------------------------ *)
WalkDone == call.fn = "frequency_walk" /\ call.done

\* the selections that fall into the slot of the i-th word of the list
Slot(words, i) ==
    LET before == sum_frequency(SubSeq(words, 1, i - 1))
    IN  before .. before + words[i].frequency - 1

\* C30: every selection in 0 .. T - 1 returns a word of the list, and the
\* number of selections that return word w is the frequency of w
C30_WalkIsWeighted ==
    WalkDone =>
        LET words == call.wl.words
        IN  /\ \E i \in DOMAIN words :
                  call.selection \in Slot(words, i) /\ call.out = words[i].index
            /\ \A i \in DOMAIN words :
                  Cardinality({sel \in Selections(call.wl) :
                                  frequency_walk(words, sel) = words[i].index})
                     = words[i].frequency

C30_Witness ==
    /\ WalkDone
    /\ Len(call.wl.words) = 3
    /\ call.wl.totalFrequency = 6
    /\ call.selection = 3
    /\ call.out = call.wl.words[3].index
    /\ call.wl.words[3].frequency = 3

(* ------------------------------------------------------------------ *)
(* properties of the write loop of sync()                              *)
(* ------------------------------------------------------------------ *)
\* the sync() of createNewDatabase has left its write loop, no write()
\* failed, and no syncer thread runs that could write to the same file
LoaderWroteAll ==
    /\ syn[Loader].pc = "rename"
    /\ ~syn[Loader].failed
    /\ \A t \in Syncers : syn[t].pc = "off"

\* C24: whatever short counts write() returned, after the write loop the
\* file <path>.new holds exactly the cells of the serialised buffer in order
C24_ShortWritesExact ==
    LoaderWroteAll => shadow = File(syn[Loader].buf)

\* the loop writes as many cells as the buffer holds, and every turn
\* writes the front of the buffer
WrittenFromFront ==
    LoaderWroteAll =>
        /\ Len(shadow.data) = Len(syn[Loader].buf)
        /\ shadow.data[1] = syn[Loader].buf[1]
        /\ shadow.data[Len(shadow.data)] \in {syn[Loader].buf[i] : i \in DOMAIN syn[Loader].buf}

(* ------------------------------------------------------------------ *)
(* properties of the read lock held by sync()                          *)
(* ------------------------------------------------------------------ *)
\* a thread is between the serialisation of sync() and its return
SyncRunning(t) == syn[t].pc \in {"open", "write", "rename"}

\* the buffer of every running sync() is the serialisation of the Database
\* as it is now
SnapshotIsCurrent ==
    alive =>
        \A t \in Threads :
            SyncRunning(t) =>
                \E now \in Timestamps : syn[t].buf = Database_serialise(TheDatabase, now)

\* no step of the live process changes the Database while a sync() runs
NoWriteDuringSync ==
    [][(alive /\ alive' /\ \E t \in Threads : SyncRunning(t))
          => TheDatabase' = TheDatabase]_vars

\* C25: from its serialisation to its return every sync(), of a syncer and
\* of createNewDatabase, keeps the writers of the Database out, and its
\* snapshot is one state of the Database
C25_SyncHoldsReadLock == []SnapshotIsCurrent /\ NoWriteDuringSync

\* a syncer is writing its snapshot while the chat thread has a user to record
C25_Witness ==
    /\ alive
    /\ ld.pc = "done" /\ ld.result = "ok"
    /\ TheDatabase.twitchData.knownTwitchUsers < MaxUsers
    /\ \E t \in Syncers : syn[t].pc = "write" /\ syn[t].off > 0

(* ------------------------------------------------------------------ *)
(* properties of the retraining progress                               *)
(* ------------------------------------------------------------------ *)
\* retrain() has returned: its replay entries are enqueued
RetrainEnqueued == calls.retrain > 0 /\ rt.pc = "idle"

\* no replay entry is in the queue or in the hands of the worker
ReplayProcessed ==
    /\ \A i \in DOMAIN queue : ~queue[i].retraining
    /\ worker.pc \in {"pop", "exited"} \/ ~worker.input.retraining

\* C27: once retrain() has enqueued its replay entries the worker comes to
\* process all of them, and from then on retrainingProgress() is 1.0
C27_RetrainCompletes ==
    RetrainEnqueued ~> [](ReplayProcessed /\ retrainingProgress = 100)

\* the worker comes to process every replay entry
ReplayDrains == RetrainEnqueued ~> []ReplayProcessed

\* the progress stays below 1.0 only when the log holds a message without text
StuckOnlyOnEmptyText ==
    (RetrainEnqueued /\ ReplayProcessed /\ retrainingProgress # 100) =>
        \E i \in DOMAIN messageLog :
            messageLog[i].message = <<>> /\ ~messageLog[i].isCommand

(* ------------------------------------------------------------------ *)
(* properties of the emote namespace                                   *)
(* ------------------------------------------------------------------ *)
\* the index that a lookup of the text resolves to, as an emote or as a
\* plain word
Resolves(text, is_emote) == get_word_index(markov, text, is_emote).idx

IsEmote(w) == w.flags % 2 = WORD_FLAG_EMOTE

\* C28: every word of the word list resolves to its own index, as an emote
\* when it is one and as a plain word when it is not, and the same text in
\* the other namespace resolves to another index, also after the model was
\* serialised and deserialised
C28_EmoteNamespace ==
    \A i \in 1 .. Len(markov.wordList) :
        LET w == markov.wordList[i]
        IN  (i - 1 > IDX_END_MARKER /\ w.word # <<>>) =>
                /\ Resolves(w.word, IsEmote(w)) = i - 1
                /\ Resolves(w.word, ~IsEmote(w)) # i - 1

(* ------------------------------------------------------------------ *)
(* properties of the lock order                                        *)
(* ------------------------------------------------------------------ *)
\* thread t waits for a lock that thread u holds
WaitsFor(t, u) ==
    /\ AtAcquire(t)
    /\ LET a == Head(call.prog[t])
       IN  \/ Holds(u, a.lock, "write")
           \/ a.mode = "write" /\ Holds(u, a.lock, "read")

\* no thread is about to acquire a lock it holds
NoReentry == \A t \in LockThreads : AtAcquire(t) => Head(call.prog[t]).lock \notin HeldLocks(t)

\* a thread that holds both locks took the Database lock first
DatabaseFirst ==
    \A t \in LockThreads :
        HeldLocks(t) = {"Database", "Markov"} => call.held[t][1].lock = "Database"

\* no two threads wait for each other
NoWaitCycle ==
    \A t \in LockThreads, u \in LockThreads : ~(WaitsFor(t, u) /\ WaitsFor(u, t))

\* C26: no thread acquires a lock it already holds, a thread holding the
\* Database lock and the Markov model lock took the Database lock first,
\* and the threads never wait for each other on these two locks
C26_LockOrder ==
    call.fn = "locks" => (NoReentry /\ DatabaseFirst /\ NoWaitCycle)

\* the syncer holds the Database lock and the Markov model lock while the
\* worker waits for the model and the chat thread for the Database
C26_Witness ==
    /\ call.fn = "locks"
    /\ call.held["syncer"] = <<[lock |-> "Database", mode |-> "read"],
                               [lock |-> "Markov", mode |-> "read"]>>
    /\ WaitsFor("worker", "syncer")
    /\ WaitsFor("chat", "syncer")

(* ------------------------------------------------------------------ *)
(* properties of generate_one                                          *)
(* ------------------------------------------------------------------ *)
GenerateOneDone == call.fn = "generate_one" /\ call.done

\* the last k indices of the prefix handed to generate_one
Suffix(k) == SubSeq(call.prefix, Len(call.prefix) - k + 1, Len(call.prefix))

\* the suffix lengths generate_one tries that have a table entry
Sampled == IF call.pfl < Len(call.prefix) THEN call.pfl ELSE Len(call.prefix)
FoundLengths == {k \in 1 .. Sampled : hash_prefix(Suffix(k)) \in DOMAIN call.model.table}
LongestFound == CHOOSE k \in FoundLengths : \A j \in FoundLengths : j <= k

\* C31: generate_one returns a word of the WordList of the longest suffix of
\* at most min(L, length) indices that has a table entry, and returns the
\* end marker exactly when the prefix is empty, no such suffix has an entry,
\* or the word drawn is the end marker
C31_LongestSuffixFirst ==
    GenerateOneDone =>
        IF call.prefix = <<>> \/ FoundLengths = {} THEN call.out = IDX_END_MARKER
        ELSE LET wl == call.model.table[hash_prefix(Suffix(LongestFound))]
             IN  \E i \in DOMAIN wl.words : call.out = wl.words[i].index

\* three indices were sampled, the last two have no entry, the last one has
C31_Witness ==
    /\ GenerateOneDone
    /\ call.pfl = 3
    /\ Len(call.prefix) = 3
    /\ FoundLengths = {1}
    /\ call.out # IDX_END_MARKER

(* ------------------------------------------------------------------ *)
(* properties of the length filter                                     *)
(* ------------------------------------------------------------------ *)
FilterDone == call.fn = "process_one" /\ call.done
FilterWords == Len(split_words(call.msg, <<>>))
Unchanged == call.out = initialise_model(MarkovModel)

\* the draws for which a message of n words leaves the model as it was
Discarding(n) == {x \in Draws : length_filter(n, x) # "ingest"}

\* a message of fewer than 2 words changes nothing, one of 6 or more is
\* always ingested
ShortAndGood ==
    FilterDone =>
        /\ FilterWords < 2 => Unchanged
        /\ FilterWords >= 6 => ~Unchanged

\* C32: fewer than 2 words change nothing; 2 to 5 words are discarded for
\* exactly 80 of 100 equally likely draws; 6 or more words are never
\* discarded
C32_LengthFilter ==
    /\ ShortAndGood
    /\ (FilterDone /\ FilterWords >= 2 /\ FilterWords < 6) =>
          /\ Unchanged <=> call.x \in Discarding(FilterWords)
          /\ 100 * Cardinality(Discarding(FilterWords)) = 80 * Cardinality(Draws)

\* a message of 2 to 5 words is discarded for 81 of the 101 draws
DiscardedFor81Of101 ==
    (FilterDone /\ FilterWords >= 2 /\ FilterWords < 6) =>
        /\ Unchanged <=> call.x \in Discarding(FilterWords)
        /\ Cardinality(Discarding(FilterWords)) = 81
        /\ Cardinality(Draws) = 101

(* ------------------------------------------------------------------ *)
(* properties of the bracket forms of parsePostfix                     *)
(* ------------------------------------------------------------------ *)
\* the tree of a bracket form followed by the tail: the node of the form,
\* as the left operand of the operator when one follows
BracketTree(form, tail) ==
    IF tail = <<>> THEN BracketNode(form)
    ELSE BinaryOp(tail[1].type, BracketNode(form), VarRef(<<"z">>))

BracketsKept(forms) ==
    ParseDone =>
        \A form \in forms, tail \in BracketTails :
            call.tokens = BracketTokens(form) \o tail => call.out = BracketTree(form, tail)

\* C34: each of the five bracket forms gives its subscript or slice node and
\* consumes the tokens up to the closing bracket and no more, so that an
\* operator after the bracket is parsed into the enclosing expression
C34_BracketForms == BracketsKept(BracketForms)

\* the four forms other than [:] do
OtherFormsKept == BracketsKept(BracketForms \ {"[:]"})

\* after [:] the token that follows the closing bracket is dropped, and the
\* parse ends with the slice alone
TokenAfterWholeSliceDropped ==
    ParseDone =>
        \A tail \in BracketTails :
            call.tokens = BracketTokens("[:]") \o tail => call.out = BracketNode("[:]")

(* ------------------------------------------------------------------ *)
(* properties of get_emote_indices                                     *)
(* ------------------------------------------------------------------ *)
EmotesDone == call.fn = "get_emote_indices" /\ call.done

\* the ranges of the call in order of begin
InOrder ==
    LET n == Len(call.ranges)
        rank(i) == Cardinality({j \in 1 .. n : call.ranges[j][1] < call.ranges[i][1]}) + 1
    IN  [k \in 1 .. n |-> call.ranges[CHOOSE i \in 1 .. n : rank(i) = k]]

\* the bytes of the codepoints begin .. end of the text
BytesOf(r) ==
    [start |-> utf8_size(SubSeq(call.text, 1, r[1])),
     size  |-> utf8_size(SubSeq(call.text, r[1] + 1, r[2] + 1))]

\* C33: one view per range, in order of begin, each covering exactly the
\* bytes of the codepoints begin to end
C33_OneSpanPerRange ==
    EmotesDone => call.out = [k \in 1 .. Len(call.ranges) |-> BytesOf(InOrder[k])]

\* every range is longer than one codepoint and ends in a one-byte codepoint
PlainRanges ==
    \A i \in DOMAIN call.ranges :
        /\ call.ranges[i][1] < call.ranges[i][2]
        /\ call.text[call.ranges[i][2] + 1] # WideChar

\* the views are right when every range is plain
PlainRangesFound ==
    (EmotesDone /\ PlainRanges) =>
        call.out = [k \in 1 .. Len(call.ranges) |-> BytesOf(InOrder[k])]

\* a range of one codepoint is never found, nor any range after it; a
\* range that ends in a two-byte codepoint loses the last byte
ViewsFound ==
    EmotesDone =>
        /\ Len(call.out) <= Len(call.ranges)
        /\ \A k \in DOMAIN call.out :
              /\ InOrder[k][1] < InOrder[k][2]
              /\ call.out[k].start = BytesOf(InOrder[k]).start
              /\ call.out[k].size = BytesOf(InOrder[k]).size
                    - (IF call.text[InOrder[k][2] + 1] = WideChar THEN 1 ELSE 0)
        /\ Len(call.out) < Len(call.ranges) =>
              InOrder[Len(call.out) + 1][1] = InOrder[Len(call.out) + 1][2]

(* ------------------------------------------------------------------ *)
(* properties of the word indices                                      *)
(* ------------------------------------------------------------------ *)
\* the word indices stored in the WordLists of a transition table
StoredIndices(table) ==
    UNION {{table[h].words[i].index : i \in DOMAIN table[h].words} : h \in DOMAIN table}

\* the positions of the word table
Positions(model) == 0 .. Len(model.wordList) - 1

\* the words generate_one can append to an output that holds the start marker
\* alone, when no writer holds the model
FirstWords(model) ==
    UNION {generate_one(model, <<IDX_START_MARKER>>, pfl) : pfl \in PrefixLengths}

\* C35: every word index stored in a WordList of the transition table, and
\* every index generate_one can place in an output, is a position of the
\* current word table
C35_IndicesValid ==
    /\ StoredIndices(markov.table) \subseteq Positions(markov)
    /\ mlock = "free" => FirstWords(markov) \subseteq Positions(markov)

\* as long as reset() has not run, every stored and every generated index is
\* a position of the word table
ValidUntilReset == calls.reset = 0 => C35_IndicesValid

(* ------------------------------------------------------------------ *)
(* properties of def, redef and undef run from several threads         *)
(* ------------------------------------------------------------------ *)
\* thread t has replied "defined 'a'" or "redefined 'a'"
ReportedSuccess(t) ==
    /\ call.fn = "commands"
    /\ call.threads[t].pc = "done"
    /\ call.threads[t].reply.text \in {<<"defined '", RaceName, "'">>,
                                       <<"redefined '", RaceName, "'">>}

\* the registry held the body of thread t under the name when t replied
RepliedWithOwnBody(t) ==
    LET commands == call.threads[t].reply.commands
    IN  /\ RaceName \in DOMAIN commands
        /\ commands[RaceName] = Macro(RaceName, call.threads[t].body)

\* C36: a def or redef that replied with success had left the registry
\* mapping the name to its own body when it replied; in particular the name
\* was not absent after a redef that reported success
C36_ReplyMatchesRegistry ==
    \A t \in RaceThreads : ReportedSuccess(t) => RepliedWithOwnBody(t)

\* a command that ran with no other command started does
AloneMatches ==
    \A t \in RaceThreads :
        (ReportedSuccess(t) /\ \A u \in RaceThreads \ {t} : call.threads[u].pc = "idle")
            => RepliedWithOwnBody(t)

\* the name is never absent right after the emplace of a def or redef, but
\* the body it holds may be that of another thread
PresentAfterEmplace ==
    [][\A t \in RaceThreads :
          (RaceStep(t, "emplace") /\ call'.threads[t].pc = "reply")
              => RaceName \in DOMAIN call'.interp.commands]_vars

\* two defs that both found the name free: the second emplace keeps the
\* macro of the first, so this does not hold
EmplaceStoresOwnBody ==
    [][\A t \in RaceThreads :
          (RaceStep(t, "emplace") /\ call'.threads[t].pc = "reply")
              => call'.interp.commands[RaceName] = Macro(RaceName, call.threads[t].body)]_vars

(* ------------------------------------------------------------------ *)
(* properties of the retraining counters                               *)
(* ------------------------------------------------------------------ *)
\* the replay entries that retrain() has enqueued and the worker has not popped
ReplayQueued == {i \in DOMAIN queue : queue[i].retraining}

\* C37: retrainingCompleted never exceeds retrainingTotalSize, the progress
\* is between 0 and 1 (here 0 to 100 percent), and it is not 1 while replay
\* entries are still in the queue
C37_ProgressBounded ==
    /\ retrainingCompleted <= retrainingTotalSize
    /\ retrainingProgress \in 0 .. 100
    /\ retrainingProgress = 100 => ReplayQueued = {}

\* the progress is never below 0, and it is 1 with replay entries queued
\* only when the total is 0 or has been overtaken
ProgressAtLeastZero ==
    /\ retrainingProgress >= 0
    /\ (retrainingProgress = 100 /\ ReplayQueued # {}) =>
          (retrainingTotalSize = 0 \/ retrainingCompleted >= retrainingTotalSize)

\* the third part on its own, which does not hold either: the worker clears
\* the counters after retrain() has counted and enqueued one more entry
FullOnlyWhenDrained == retrainingProgress = 100 => ReplayQueued = {}

\* nor does the first part outside the two statements that clear the
\* counters: an entry enqueued before the clear is counted after it
CompletedWithinTotal ==
    worker.pc # "clear_completed" => retrainingCompleted <= retrainingTotalSize

(* ------------------------------------------------------------------ *)
(* properties of the index map of a WordList                           *)
(* ------------------------------------------------------------------ *)
\* the index map of a WordList agrees with its word vector
IndexMapConsistent(wl) ==
    /\ DOMAIN wl.globalIndexMap = {wl.words[i].index : i \in DOMAIN wl.words}
    /\ \A i \in DOMAIN wl.words, j \in DOMAIN wl.words :
          wl.words[i].index = wl.words[j].index => i = j
    /\ \A w \in DOMAIN wl.globalIndexMap :
          /\ wl.globalIndexMap[w] + 1 \in DOMAIN wl.words
          /\ wl.words[wl.globalIndexMap[w] + 1].index = w

\* C38: in every WordList of the transition table the keys of globalIndexMap
\* are the word indices of words, no index occurs twice in words, and
\* words[globalIndexMap[w]].index = w for every key w
C38_IndexMapConsistent ==
    \A h \in DOMAIN markov.table : IndexMapConsistent(markov.table[h])

\* both messages are ingested, and a WordList holds two words, one counted
\* twice
C38_Witness ==
    /\ worker.pc = "pop" /\ queue = <<>> /\ Len(hist.applied) = 2
    /\ \E h \in DOMAIN markov.table :
          /\ Len(markov.table[h].words) = 2
          /\ markov.table[h].totalFrequency = 2
    /\ \E h \in DOMAIN markov.table :
          /\ Len(markov.table[h].words) = 1
          /\ markov.table[h].words[1].frequency = 2

(* ------------------------------------------------------------------ *)
(* termination of sendMessage                                          *)
(* ------------------------------------------------------------------ *)
SendDone == call.fn = "sendMessage" /\ call.done

\* C39: sendMessage returns for every message, and sends no more lines than
\* the message has codepoints
C39_SendTerminates ==
    SendDone => (call.out.returns /\ Len(call.out.lines) <= Len(call.msg) + 1)

\* it does when every codepoint of the message takes one byte, with or
\* without a space among the first LIMIT codepoints
OneByteTerminates ==
    (SendDone /\ \A i \in DOMAIN call.msg : call.msg[i] # WideChar) =>
        (call.out.returns /\ Len(call.out.lines) <= Len(call.msg) + 1)

\* the call fails to return only for a message that holds a two-byte
\* codepoint and is longer than LIMIT bytes
NeverReturnsOnWideFragment ==
    (SendDone /\ ~call.out.returns) =>
        /\ \E i \in DOMAIN call.msg : call.msg[i] = WideChar
        /\ utf8_size(trim(call.msg)) > LIMIT
====
